---- MODULE Spec2Model ----
(***************************************************************************)
(* Verification model of reloco: the reference-counted ownership system    *)
(* (include/reloco/shared_ptr.hpp) and the growable buffer                 *)
(* (include/reloco/vector.hpp).                                            *)
(***************************************************************************)
EXTENDS Integers, Sequences, FiniteSets, TLC

(***************************************************************************)
(* Bounds of the shared/weak handle model.                                 *)
(***************************************************************************)
NThreads == 2
NShared == 3
NWeak == 2
NBlocks == 1

Threads == 1..NThreads
SSlots == 1..NShared
WSlots == 1..NWeak
Blocks == 1..NBlocks

\* nullptr for block_ fields, "no slot" for the per-thread operands
Null == 0

VARIABLES
  sp_block_,      \* shared_ptr::block_ of every shared handle slot
  wp_block_,      \* weak_ptr::block_ of every weak handle slot
  shared_count_,  \* sp_control_block::shared_count_
  weak_count_,    \* sp_control_block::weak_count_
  cb_state,       \* "none" (never created), "live", "freed"
  esft,           \* T derives from enable_shared_from_this (weak_this_)
  destroyed,      \* number of delete_ptr() runs per block
  freed,          \* number of delete_control_block() runs per block
  uaf,            \* an atomic access touched a released control block
  pc,             \* position of each thread inside its operation
  op,             \* operation each thread is executing
  sdst, ssrc,     \* shared handle operands of the running operation
  wdst, wsrc,     \* weak handle operands of the running operation
  cur,            \* control block whose release_* is running
  ret,            \* where release_weak returns to
  count,          \* local `count` of weak_ptr::lock
  result          \* result<> returned by lock / try_allocate_shared

spVars == <<sp_block_, wp_block_, shared_count_, weak_count_, cb_state, esft,
            destroyed, freed, uaf, pc, op, sdst, ssrc, wdst, wsrc, cur, ret,
            count, result>>

handleVars == <<sp_block_, wp_block_>>
blockVars == <<shared_count_, weak_count_, cb_state, esft, destroyed, freed>>
regVars == <<op, sdst, ssrc, wdst, wsrc, cur, ret, count, result>>

\* shared_ptr.hpp:11-12, member initialisers of sp_control_block
InitialSharedCount == 1
InitialWeakCount == 1

InitShared ==
  /\ sp_block_ = [h \in SSlots |-> Null]
  /\ wp_block_ = [w \in WSlots |-> Null]
  /\ shared_count_ = [b \in Blocks |-> 0]
  /\ weak_count_ = [b \in Blocks |-> 0]
  /\ cb_state = [b \in Blocks |-> "none"]
  /\ esft = [b \in Blocks |-> FALSE]
  /\ destroyed = [b \in Blocks |-> 0]
  /\ freed = [b \in Blocks |-> 0]
  /\ uaf = FALSE
  /\ pc = [t \in Threads |-> "idle"]
  /\ op = [t \in Threads |-> "none"]
  /\ sdst = [t \in Threads |-> Null]
  /\ ssrc = [t \in Threads |-> Null]
  /\ wdst = [t \in Threads |-> Null]
  /\ wsrc = [t \in Threads |-> Null]
  /\ cur = [t \in Threads |-> Null]
  /\ ret = [t \in Threads |-> "fin"]
  /\ count = [t \in Threads |-> 0]
  /\ result = [t \in Threads |-> "none"]

(***************************************************************************)
(* A handle object may be written by one thread only while no other        *)
(* thread reads or writes it, and read only while no thread writes it      *)
(* (anything else is a data race on the non-atomic block_ field).          *)
(***************************************************************************)
SFreeW(s) == \A u \in Threads : sdst[u] # s /\ ssrc[u] # s
SFreeR(s) ==
  \A u \in Threads :
     sdst[u] # s /\ ~(op[u] = "move_assign" /\ ssrc[u] = s)
WFreeW(w) == \A u \in Threads : wdst[u] # w /\ wsrc[u] # w
WFreeR(w) ==
  \A u \in Threads :
     wdst[u] # w /\ ~(op[u] = "w_move_assign" /\ wsrc[u] = w)

\* An atomic access to the counters of block b after its memory was released
Touch(b) == uaf \/ cb_state[b] # "live"

Idle(t) == pc[t] = "idle"

ClearRegs(t) ==
  /\ op' = [op EXCEPT ![t] = "none"]
  /\ sdst' = [sdst EXCEPT ![t] = Null]
  /\ ssrc' = [ssrc EXCEPT ![t] = Null]
  /\ wdst' = [wdst EXCEPT ![t] = Null]
  /\ wsrc' = [wsrc EXCEPT ![t] = Null]
  /\ cur' = [cur EXCEPT ![t] = Null]
  /\ ret' = [ret EXCEPT ![t] = "fin"]
  /\ count' = [count EXCEPT ![t] = 0]


(***************************************************************************)
(* Counter arithmetic of the control block.                                *)
(***************************************************************************)
\* release_shared deleting one decrement early
ReleaseSharedIsLast_early(old) == old <= 2

\* release_shared: `shared_count_.fetch_sub(1) == 1`
ReleaseSharedIsLast(old) == old = 1

\* release_weak freeing one decrement early
ReleaseWeakIsLast_early(old) == old <= 2

\* release_weak: `weak_count_.fetch_sub(1) == 1`
ReleaseWeakIsLast(old) == old = 1

\* a copy that forgets the fetch_add
CopyShared_forgotten(c) == c

\* copy of a shared handle: `shared_count_.fetch_add(1)`
CopyShared(c) == c + 1

\* copy of a weak handle: `weak_count_.fetch_add(1)`
CopyWeak(c) == c + 1

\* a lock that upgrades without testing the count
LockMayUpgrade_always(c) == TRUE

\* weak_ptr::lock: `while (count != 0)`
LockMayUpgrade(c) == c # 0

\* a lock whose compare_exchange stores count + 2
LockDesired_two(c) == c + 2

\* weak_ptr::lock: desired value of the compare_exchange_weak
LockDesired(c) == c + 1

\* use_count(): 0 for an empty handle, else the block's shared count
use_count(h) ==
  IF sp_block_[h] # Null THEN shared_count_[sp_block_[h]] ELSE 0

\* weak_ptr::expired()
expired(w) == wp_block_[w] = Null \/ shared_count_[wp_block_[w]] = 0

(***************************************************************************)
(* Creation: try_allocate_shared / try_allocate_combined_shared.  The      *)
(* block is private to the creating thread until the handle is returned,   *)
(* so creation is one step.  e: T derives from enable_shared_from_this.    *)
(***************************************************************************)
FreshBlock == CHOOSE b \in Blocks :
                 /\ cb_state[b] = "none"
                 /\ \A c \in Blocks : cb_state[c] = "none" => b <= c

\* a creation that does not count the weak_this_ back-reference
CreatedWeakCount_plain(e) == InitialWeakCount

\* weak count the creation functions leave: weak_count_{1}, and for a type
\* deriving from enable_shared_from_this `cb->weak_count_.fetch_add(1)`
CreatedWeakCount(e) ==
  IF e THEN CopyWeak(InitialWeakCount) ELSE InitialWeakCount

try_allocate_shared(t, d, e, ok) ==
  /\ Idle(t)
  /\ SFreeW(d)
  /\ sp_block_[d] = Null
  /\ \E b \in Blocks : cb_state[b] = "none"
  /\ pc' = [pc EXCEPT ![t] = "ret"]
  /\ op' = [op EXCEPT ![t] = "create"]
  /\ IF ok
       THEN LET b == FreshBlock IN
            /\ cb_state' = [cb_state EXCEPT ![b] = "live"]
            /\ shared_count_' = [shared_count_ EXCEPT ![b] = InitialSharedCount]
            /\ weak_count_' = [weak_count_ EXCEPT ![b] = CreatedWeakCount(e)]
            /\ esft' = [esft EXCEPT ![b] = e]
            /\ sp_block_' = [sp_block_ EXCEPT ![d] = b]
            /\ result' = [result EXCEPT ![t] = "ok"]
       ELSE /\ result' = [result EXCEPT ![t] = "allocation_failed"]
            /\ UNCHANGED <<cb_state, shared_count_, weak_count_, esft,
                           sp_block_>>
  /\ UNCHANGED <<wp_block_, destroyed, freed, uaf, sdst, ssrc, wdst, wsrc,
                 cur, ret, count>>

\* the caller has consumed the result<> of lock / try_allocate_shared
Return(t) ==
  /\ pc[t] = "ret"
  /\ pc' = [pc EXCEPT ![t] = "idle"]
  /\ result' = [result EXCEPT ![t] = "none"]
  /\ ClearRegs(t)
  /\ UNCHANGED <<handleVars, blockVars, uaf>>

(***************************************************************************)
(* shared_ptr copy and move constructors (d is the handle being built).    *)
(***************************************************************************)
shared_copy_ctor(t, d, s) ==
  /\ Idle(t)
  /\ d # s
  /\ SFreeW(d)
  /\ SFreeR(s)
  /\ sp_block_[d] = Null
  /\ sp_block_' = [sp_block_ EXCEPT ![d] = sp_block_[s]]
  /\ IF sp_block_[s] # Null
       THEN /\ shared_count_' = [shared_count_ EXCEPT
                 ![sp_block_[s]] = CopyShared(shared_count_[sp_block_[s]])]
            /\ uaf' = Touch(sp_block_[s])
       ELSE UNCHANGED <<shared_count_, uaf>>
  /\ UNCHANGED <<wp_block_, weak_count_, cb_state, esft, destroyed, freed,
                 pc, regVars>>

shared_move_ctor(t, d, s) ==
  /\ Idle(t)
  /\ d # s
  /\ SFreeW(d)
  /\ SFreeW(s)
  /\ sp_block_[d] = Null
  /\ sp_block_[s] # Null
  /\ sp_block_' = [sp_block_ EXCEPT ![d] = sp_block_[s], ![s] = Null]
  /\ UNCHANGED <<wp_block_, blockVars, uaf, pc, regVars>>

(***************************************************************************)
(* shared_ptr operations that begin with release_shared on the handle's    *)
(* old block: operator=(const&), operator=(&&), reset(), ~shared_ptr().    *)
(***************************************************************************)
SharedOps == {"copy_assign", "move_assign", "reset", "dtor"}

\* an assignment that does not notice it assigns a handle to itself
SameHandle_never(d, s) == FALSE

\* the negation of `this != &other` in the four assignment operators
SameHandle(d, s) == d = s

shared_begin(t, o, d, s) ==
  /\ Idle(t)
  /\ o \in SharedOps
  /\ SFreeW(d)
  /\ CASE o = "copy_assign" -> s # Null /\ SFreeR(s)
       [] o = "move_assign" -> s # Null /\ SFreeW(s)
       [] OTHER -> s = Null /\ sp_block_[d] # Null
  /\ op' = [op EXCEPT ![t] = o]
  /\ sdst' = [sdst EXCEPT ![t] = d]
  /\ ssrc' = [ssrc EXCEPT ![t] = s]
  /\ IF ~SameHandle(d, s) /\ sp_block_[d] # Null
       THEN /\ pc' = [pc EXCEPT ![t] = "rs_sub"]
            /\ cur' = [cur EXCEPT ![t] = sp_block_[d]]
       ELSE /\ pc' = [pc EXCEPT ![t] = "fin"]
            /\ UNCHANGED cur
  /\ UNCHANGED <<handleVars, blockVars, uaf, wdst, wsrc, ret, count, result>>

\* release_shared: the fetch_sub on shared_count_
release_shared(t) ==
  /\ pc[t] = "rs_sub"
  /\ LET b == cur[t]
         old == shared_count_[b]
     IN /\ shared_count_' = [shared_count_ EXCEPT ![b] = old - 1]
        /\ uaf' = Touch(b)
        /\ pc' = [pc EXCEPT ![t] = IF ReleaseSharedIsLast(old)
                                     THEN "rs_del" ELSE "fin"]
  /\ UNCHANGED <<handleVars, weak_count_, cb_state, esft, destroyed, freed,
                 regVars>>

\* delete_ptr: ~T(); for an enable_shared_from_this type ~T() drops the
\* embedded weak_this_ before release_shared goes on to release_weak
delete_ptr(t) ==
  /\ pc[t] = "rs_del"
  /\ LET b == cur[t] IN
        /\ destroyed' = [destroyed EXCEPT ![b] = @ + 1]
        /\ uaf' = Touch(b)
        /\ ret' = [ret EXCEPT ![t] = IF esft[b] THEN "rs_weak" ELSE "fin"]
  /\ pc' = [pc EXCEPT ![t] = "rw_sub"]
  /\ UNCHANGED <<handleVars, shared_count_, weak_count_, cb_state, esft,
                 freed, op, sdst, ssrc, wdst, wsrc, cur, count, result>>

\* control returns from release_weak: either into release_shared, which
\* then drops the block's self-reference, or to the end of the operation
AfterReleaseWeak(t) ==
  IF ret[t] = "rs_weak"
    THEN /\ pc' = [pc EXCEPT ![t] = "rw_sub"]
         /\ ret' = [ret EXCEPT ![t] = "fin"]
    ELSE /\ pc' = [pc EXCEPT ![t] = "fin"]
         /\ UNCHANGED ret

\* release_weak: the fetch_sub on weak_count_
release_weak(t) ==
  /\ pc[t] = "rw_sub"
  /\ LET b == cur[t]
         old == weak_count_[b]
     IN /\ weak_count_' = [weak_count_ EXCEPT ![b] = old - 1]
        /\ uaf' = Touch(b)
        /\ IF ReleaseWeakIsLast(old)
             THEN pc' = [pc EXCEPT ![t] = "rw_free"] /\ UNCHANGED ret
             ELSE AfterReleaseWeak(t)
  /\ UNCHANGED <<handleVars, shared_count_, cb_state, esft, destroyed, freed,
                 op, sdst, ssrc, wdst, wsrc, cur, count, result>>

\* delete_control_block: the block's memory goes back to the allocator
delete_control_block(t) ==
  /\ pc[t] = "rw_free"
  /\ LET b == cur[t] IN
        /\ freed' = [freed EXCEPT ![b] = @ + 1]
        /\ cb_state' = [cb_state EXCEPT ![b] = "freed"]
        /\ uaf' = Touch(b)
  /\ AfterReleaseWeak(t)
  /\ UNCHANGED <<handleVars, shared_count_, weak_count_, esft, destroyed,
                 op, sdst, ssrc, wdst, wsrc, cur, count, result>>


\* the rest of the shared_ptr operation, after release_shared has returned
shared_finish(t) ==
  /\ pc[t] = "fin"
  /\ op[t] \in SharedOps
  /\ LET d == sdst[t]
         s == ssrc[t]
     IN CASE SameHandle(d, s) -> UNCHANGED <<sp_block_, shared_count_, uaf>>
          [] op[t] = "copy_assign" ->
               /\ sp_block_' = [sp_block_ EXCEPT ![d] = sp_block_[s]]
               /\ IF sp_block_[s] # Null
                    THEN /\ shared_count_' = [shared_count_ EXCEPT
                              ![sp_block_[s]] =
                                 CopyShared(shared_count_[sp_block_[s]])]
                         /\ uaf' = Touch(sp_block_[s])
                    ELSE UNCHANGED <<shared_count_, uaf>>
          [] op[t] = "move_assign" ->
               /\ sp_block_' = [sp_block_ EXCEPT ![d] = sp_block_[s],
                                                 ![s] = Null]
               /\ UNCHANGED <<shared_count_, uaf>>
          [] OTHER ->
               /\ sp_block_' = [sp_block_ EXCEPT ![d] = Null]
               /\ UNCHANGED <<shared_count_, uaf>>
  /\ pc' = [pc EXCEPT ![t] = "idle"]
  /\ ClearRegs(t)
  /\ UNCHANGED <<wp_block_, weak_count_, cb_state, esft, destroyed, freed,
                 result>>

(***************************************************************************)
(* weak_ptr constructors: from a shared handle, copy, move.                *)
(***************************************************************************)
weak_from_shared(t, w, s) ==
  /\ Idle(t)
  /\ WFreeW(w)
  /\ SFreeR(s)
  /\ wp_block_[w] = Null
  /\ sp_block_[s] # Null
  /\ wp_block_' = [wp_block_ EXCEPT ![w] = sp_block_[s]]
  /\ weak_count_' = [weak_count_ EXCEPT
        ![sp_block_[s]] = CopyWeak(weak_count_[sp_block_[s]])]
  /\ uaf' = Touch(sp_block_[s])
  /\ UNCHANGED <<sp_block_, shared_count_, cb_state, esft, destroyed, freed,
                 pc, regVars>>

weak_copy_ctor(t, w, v) ==
  /\ Idle(t)
  /\ w # v
  /\ WFreeW(w)
  /\ WFreeR(v)
  /\ wp_block_[w] = Null
  /\ wp_block_[v] # Null
  /\ wp_block_' = [wp_block_ EXCEPT ![w] = wp_block_[v]]
  /\ weak_count_' = [weak_count_ EXCEPT
        ![wp_block_[v]] = CopyWeak(weak_count_[wp_block_[v]])]
  /\ uaf' = Touch(wp_block_[v])
  /\ UNCHANGED <<sp_block_, shared_count_, cb_state, esft, destroyed, freed,
                 pc, regVars>>

weak_move_ctor(t, w, v) ==
  /\ Idle(t)
  /\ w # v
  /\ WFreeW(w)
  /\ WFreeW(v)
  /\ wp_block_[w] = Null
  /\ wp_block_[v] # Null
  /\ wp_block_' = [wp_block_ EXCEPT ![w] = wp_block_[v], ![v] = Null]
  /\ UNCHANGED <<sp_block_, blockVars, uaf, pc, regVars>>

(***************************************************************************)
(* weak_ptr operations that begin with release_weak on the handle's old    *)
(* block: operator=(const&), operator=(&&), ~weak_ptr().                   *)
(***************************************************************************)
WeakOps == {"w_copy_assign", "w_move_assign", "w_dtor"}

weak_begin(t, o, w, v) ==
  /\ Idle(t)
  /\ o \in WeakOps
  /\ WFreeW(w)
  /\ CASE o = "w_copy_assign" -> v # Null /\ WFreeR(v)
       [] o = "w_move_assign" -> v # Null /\ WFreeW(v)
       [] OTHER -> v = Null /\ wp_block_[w] # Null
  /\ op' = [op EXCEPT ![t] = o]
  /\ wdst' = [wdst EXCEPT ![t] = w]
  /\ wsrc' = [wsrc EXCEPT ![t] = v]
  /\ IF ~SameHandle(w, v) /\ wp_block_[w] # Null
       THEN /\ pc' = [pc EXCEPT ![t] = "rw_sub"]
            /\ cur' = [cur EXCEPT ![t] = wp_block_[w]]
       ELSE /\ pc' = [pc EXCEPT ![t] = "fin"]
            /\ UNCHANGED cur
  /\ UNCHANGED <<handleVars, blockVars, uaf, sdst, ssrc, ret, count, result>>

weak_finish(t) ==
  /\ pc[t] = "fin"
  /\ op[t] \in WeakOps
  /\ LET w == wdst[t]
         v == wsrc[t]
     IN CASE SameHandle(w, v) -> UNCHANGED <<wp_block_, weak_count_, uaf>>
          [] op[t] = "w_copy_assign" ->
               /\ wp_block_' = [wp_block_ EXCEPT ![w] = wp_block_[v]]
               /\ IF wp_block_[v] # Null
                    THEN /\ weak_count_' = [weak_count_ EXCEPT
                              ![wp_block_[v]] =
                                 CopyWeak(weak_count_[wp_block_[v]])]
                         /\ uaf' = Touch(wp_block_[v])
                    ELSE UNCHANGED <<weak_count_, uaf>>
          [] op[t] = "w_move_assign" ->
               /\ wp_block_' = [wp_block_ EXCEPT ![w] = wp_block_[v],
                                                 ![v] = Null]
               /\ UNCHANGED <<weak_count_, uaf>>
          [] OTHER ->
               /\ wp_block_' = [wp_block_ EXCEPT ![w] = Null]
               /\ UNCHANGED <<weak_count_, uaf>>
  /\ pc' = [pc EXCEPT ![t] = "idle"]
  /\ ClearRegs(t)
  /\ UNCHANGED <<sp_block_, shared_count_, cb_state, esft, destroyed, freed,
                 result>>

(***************************************************************************)
(* weak_ptr::lock(): null check, relaxed load, compare_exchange_weak loop. *)
(* d is the shared handle that receives the returned value.                *)
(***************************************************************************)
lock_begin(t, w, d) ==
  /\ Idle(t)
  /\ WFreeR(w)
  /\ SFreeW(d)
  /\ sp_block_[d] = Null
  /\ op' = [op EXCEPT ![t] = "lock"]
  /\ wsrc' = [wsrc EXCEPT ![t] = w]
  /\ sdst' = [sdst EXCEPT ![t] = d]
  /\ IF wp_block_[w] = Null
       THEN /\ result' = [result EXCEPT ![t] = "empty_pointer"]
            /\ pc' = [pc EXCEPT ![t] = "ret"]
            /\ UNCHANGED cur
       ELSE /\ pc' = [pc EXCEPT ![t] = "lock_load"]
            /\ cur' = [cur EXCEPT ![t] = wp_block_[w]]
            /\ UNCHANGED result
  /\ UNCHANGED <<handleVars, blockVars, uaf, ssrc, wdst, ret, count>>

\* auto count = block_->shared_count_.load(relaxed)
lock_load(t) ==
  /\ pc[t] = "lock_load"
  /\ count' = [count EXCEPT ![t] = shared_count_[cur[t]]]
  /\ uaf' = Touch(cur[t])
  /\ pc' = [pc EXCEPT ![t] = "lock_loop"]
  /\ UNCHANGED <<handleVars, blockVars, op, sdst, ssrc, wdst, wsrc, cur, ret,
                 result>>

\* the loop exits with count == 0
lock_expired(t) ==
  /\ pc[t] = "lock_loop"
  /\ ~LockMayUpgrade(count[t])
  /\ result' = [result EXCEPT ![t] = "pointer_expired"]
  /\ pc' = [pc EXCEPT ![t] = "ret"]
  /\ UNCHANGED <<handleVars, blockVars, uaf, op, sdst, ssrc, wdst, wsrc, cur,
                 ret, count>>

\* compare_exchange_weak succeeds: count -> count + 1, handle returned
lock_cas_ok(t) ==
  /\ pc[t] = "lock_loop"
  /\ LockMayUpgrade(count[t])
  /\ shared_count_[cur[t]] = count[t]
  /\ shared_count_' = [shared_count_ EXCEPT ![cur[t]] = LockDesired(count[t])]
  /\ uaf' = Touch(cur[t])
  /\ sp_block_' = [sp_block_ EXCEPT ![sdst[t]] = cur[t]]
  /\ result' = [result EXCEPT ![t] = "ok"]
  /\ pc' = [pc EXCEPT ![t] = "ret"]
  /\ UNCHANGED <<wp_block_, weak_count_, cb_state, esft, destroyed, freed,
                 op, sdst, ssrc, wdst, wsrc, cur, ret, count>>

\* compare_exchange_weak fails (another thread changed the counter, or
\* spuriously): count is reloaded with the current value, loop again
lock_cas_fail(t) ==
  /\ pc[t] = "lock_loop"
  /\ LockMayUpgrade(count[t])
  /\ count' = [count EXCEPT ![t] = shared_count_[cur[t]]]
  /\ uaf' = Touch(cur[t])
  /\ UNCHANGED <<handleVars, blockVars, pc, op, sdst, ssrc, wdst, wsrc, cur,
                 ret, result>>

(***************************************************************************)
(* enable_shared_from_this<T>::shared_from_this(): weak_this_.lock().  The *)
(* call is made on an object reached through the shared handle s, which    *)
(* the caller keeps for the duration of the call, or (s = Null) on an      *)
(* object no shared handle owns, such as one on the stack.                 *)
(***************************************************************************)
\* a creation that leaves weak_this_ as default-constructed
WeakThis_unbound(s) == Null

\* weak_this_.block_ of the object: default-constructed (nullptr) unless
\* try_allocate_shared / try_allocate_combined_shared bound it to the
\* object's control block
WeakThis(s) == IF s = Null THEN Null ELSE sp_block_[s]

shared_from_this(t, s, d) ==
  /\ Idle(t)
  /\ SFreeW(d)
  /\ sp_block_[d] = Null
  /\ d # s
  /\ s # Null => (SFreeR(s) /\ sp_block_[s] # Null /\ esft[sp_block_[s]])
  /\ op' = [op EXCEPT ![t] = "shared_from_this"]
  /\ ssrc' = [ssrc EXCEPT ![t] = s]
  /\ sdst' = [sdst EXCEPT ![t] = d]
  /\ IF WeakThis(s) = Null
       THEN /\ result' = [result EXCEPT ![t] = "empty_pointer"]
            /\ pc' = [pc EXCEPT ![t] = "ret"]
            /\ UNCHANGED cur
       ELSE /\ pc' = [pc EXCEPT ![t] = "lock_load"]
            /\ cur' = [cur EXCEPT ![t] = WeakThis(s)]
            /\ UNCHANGED result
  /\ UNCHANGED <<handleVars, blockVars, uaf, wdst, wsrc, ret, count>>

(***************************************************************************)
(* static_pointer_cast, dynamic_pointer_cast, const_pointer_cast: the      *)
(* aliasing constructor of shared_ptr on the cast pointer; fits: whether   *)
(* the dynamic_cast of r.get() gives a non-null pointer.                   *)
(***************************************************************************)
CastOps == {"static_pointer_cast", "dynamic_pointer_cast",
            "const_pointer_cast"}

\* an aliasing constructor that takes the block without counting itself
AliasShared_uncounted(c) == c

\* shared_ptr(const shared_ptr<U> &other, T *ptr): fetch_add(1)
AliasShared(c) == c + 1

pointer_cast(t, o, d, s, fits) ==
  /\ Idle(t)
  /\ d # s
  /\ SFreeW(d)
  /\ SFreeR(s)
  /\ sp_block_[d] = Null
  /\ o \in CastOps
  /\ sp_block_[s] = Null => ~fits
  /\ o # "dynamic_pointer_cast" => (fits <=> sp_block_[s] # Null)
  /\ op' = [op EXCEPT ![t] = o]
  /\ ssrc' = [ssrc EXCEPT ![t] = s]
  /\ sdst' = [sdst EXCEPT ![t] = d]
  /\ pc' = [pc EXCEPT ![t] = "ret"]
  /\ IF o = "dynamic_pointer_cast" /\ ~fits
       THEN /\ result' = [result EXCEPT ![t] = "null"]
            /\ UNCHANGED <<sp_block_, shared_count_, uaf>>
       ELSE /\ sp_block_' = [sp_block_ EXCEPT ![d] = sp_block_[s]]
            /\ result' = [result EXCEPT
                 ![t] = IF sp_block_[s] = Null THEN "null" ELSE "ok"]
            /\ IF sp_block_[s] # Null
                 THEN /\ shared_count_' = [shared_count_ EXCEPT
                           ![sp_block_[s]] =
                              AliasShared(shared_count_[sp_block_[s]])]
                      /\ uaf' = Touch(sp_block_[s])
                 ELSE UNCHANGED <<shared_count_, uaf>>
  /\ UNCHANGED <<wp_block_, weak_count_, cb_state, esft, destroyed, freed,
                 wdst, wsrc, cur, ret, count>>

(***************************************************************************)
(* The growable buffer: reloco::vector<T> over a fallible_allocator.       *)
(***************************************************************************)
\* bounds of the vector model
NVecs == 2
NAddrs == 3
MaxVal == 2
MaxCap == 4
GrowthCap == 16
GrowthLen == 9

Vecs == 1..NVecs
Addrs == 1..NAddrs
Values == 1..MaxVal

\* storage holding no object (never constructed, destroyed, relocated away)
Raw == -1
\* a live object in its moved-from state
Moved == -2

VARIABLES
  is_relocatable,           \* is_relocatable<T>::value of the element type
  trivially_destructible,   \* std::is_trivially_destructible_v<T>
  alive,                    \* the vector object exists
  data_, size_, cap_,       \* vector<T>::data_, size_, cap_
  mem,                      \* allocator blocks: address -> cells, <<>> if free
  last,                     \* the last vector call: operation, arguments, result
  pushes_only               \* only try_push_back(size()) ran since construction

vecVars == <<is_relocatable, trivially_destructible, alive, data_, size_,
             cap_, mem, last, pushes_only>>

(***************************************************************************)
(* Creation of a shared handle, step by step, over a tracking allocator:   *)
(* try_allocate_shared (object block, then control block) and              *)
(* try_allocate_combined_shared (one block for both).                      *)
(***************************************************************************)
\* bound of the creation model
NAttempts == 2

Attempts == 1..NAttempts

VARIABLES
  cr_layout,    \* attempt -> "none" | "separate" | "combined"
  cr_factory,   \* attempt -> has_try_create<T, Args...>
  cr_pc,        \* attempt -> the statement the creation function is at
  cr_held,      \* blocks obtained and not yet deallocated: <<attempt, kind>>
  cr_objects,   \* attempt -> live T objects (constructed minus destroyed)
  cr_result,    \* attempt -> "none" | "ok" | the error returned
  cr_fault      \* attempt -> <<step, error>> of the step that failed

crVars == <<cr_layout, cr_factory, cr_pc, cr_held, cr_objects, cr_result,
            cr_fault>>

NoFault == <<"none", "none">>

InitCreate ==
  /\ cr_layout = [i \in Attempts |-> "none"]
  /\ cr_factory = [i \in Attempts |-> FALSE]
  /\ cr_pc = [i \in Attempts |-> "idle"]
  /\ cr_held = {}
  /\ cr_objects = [i \in Attempts |-> 0]
  /\ cr_result = [i \in Attempts |-> "none"]
  /\ cr_fault = [i \in Attempts |-> NoFault]

(***************************************************************************)
(* construction_helpers: the strategy dispatch of try_construct (in place),*)
(* try_allocate (produce a value) and try_clone, for one type T given by   *)
(* the capabilities it exposes.                                            *)
(***************************************************************************)
\* bound of the dispatch model: allocators a caller can pass
NAllocs == 2

Allocs == 1..NAllocs

\* has_try_construct, has_try_allocate, has_try_create for the call's
\* arguments; source.try_clone(alloc), source.try_clone(),
\* has_try_allocate<T, const T&>, has_try_create<T, const T&>
Caps == {"try_construct", "try_allocate", "try_create",
         "try_clone_alloc", "try_clone", "try_allocate_src",
         "try_create_src"}

Helpers == {"try_construct", "try_allocate", "try_clone"}

VARIABLES
  ch_caps,      \* the capabilities of T
  ch_storage,   \* live objects in the caller's storage
  ch_used,      \* helper -> the strategy it used on T ("none": not called)
  ch_last       \* the helper call that has just returned

chVars == <<ch_caps, ch_storage, ch_used, ch_last>>

InitHelperFields ==
  /\ ch_storage = 0
  /\ ch_used = [h \in Helpers |-> "none"]
  /\ ch_last = [op |-> "none"]

(***************************************************************************)
(* allocator_helper::allocate_array for an element type built through its  *)
(* two-phase hook.                                                         *)
(***************************************************************************)
\* bounds of the array model: largest count asked for, largest size_t value
MaxCount == 4
SizeMax == 15

\* sizeof(T)
Sizes == {1, 4}

VARIABLES
  ar_pc,           \* "idle", "loop" (inside the construction loop), "done"
  ar_count,        \* count
  ar_trivial,      \* std::is_trivially_destructible_v<T>
  ar_block,        \* the array block is held
  ar_bytes,        \* total_bytes
  ar_initialized,  \* the loop index
  ar_live,         \* indexes holding an object whose destructor has not run
  ar_stats,        \* constructor and destructor calls of the current call
  ar_result,       \* what the call returned
  ar_fault         \* the step that failed and its error

arVars == <<ar_pc, ar_count, ar_trivial, ar_block, ar_bytes, ar_initialized,
            ar_live, ar_stats, ar_result, ar_fault>>

NoStats == [shells |-> 0, shell_dtors |-> 0, completed |-> 0,
            rollback_dtors |-> 0]

InitArrays ==
  /\ ar_pc = "idle"
  /\ ar_count = 0
  /\ ar_trivial = FALSE
  /\ ar_block = FALSE
  /\ ar_bytes = 0
  /\ ar_initialized = 0
  /\ ar_live = {}
  /\ ar_stats = NoStats
  /\ ar_result = "none"
  /\ ar_fault = [step |-> "none", err |-> "none", k |-> 0]

(***************************************************************************)
(* reloco::basic_string: a byte buffer of cap_ + 1 bytes over a            *)
(* fallible_allocator; an empty string points at the shared empty_char.    *)
(***************************************************************************)
\* bounds of the string model: string objects, allocator addresses, largest
\* capacity, largest character, longest argument
NStrs == 2
NStrAddrs == 2
MaxStrCap == 3
MaxChar == 1
MaxView == 2

Strs == 1..NStrs
StrAddrs == 1..NStrAddrs

\* byte values; 0 is the null character
Bytes == 0..MaxChar

\* the std::string_view arguments
Views == UNION {[1..n -> 1..MaxChar] : n \in 0..MaxView}

\* data_ == &empty_char
EmptyChar == 0

VARIABLES
  st_alive,     \* the string object exists
  st_data,      \* basic_string::data_: EmptyChar or the address of a block
  st_size,      \* basic_string::size_
  st_cap,       \* basic_string::cap_
  st_heap,      \* address -> the bytes of the block, <<>> if not allocated
  empty_char,   \* the static basic_string::empty_char
  st_last       \* the string call that has just returned

strVars == <<st_alive, st_data, st_size, st_cap, st_heap, empty_char, st_last>>

NoStrCall == [op |-> "none"]

InitStrings ==
  /\ st_alive = [s \in Strs |-> FALSE]
  /\ st_data = [s \in Strs |-> EmptyChar]
  /\ st_size = [s \in Strs |-> 0]
  /\ st_cap = [s \in Strs |-> 0]
  /\ st_heap = [a \in StrAddrs |-> <<>>]
  /\ empty_char = 0
  /\ st_last = NoStrCall

(***************************************************************************)
(* atomic_fallible_singleton<T, Traits>::instance called by several        *)
(* threads with one external lock.  The acquire load, the release store    *)
(* and the lock order every access, so each step is one atomic action.     *)
(***************************************************************************)
\* bounds of the singleton model
NSgThreads == 3
NSgCalls == 2

SgThreads == 1..NSgThreads

\* `static constexpr int UNINITIALIZED = 0; static constexpr int READY = 1;`
UNINITIALIZED == 0
READY == 1

\* &m_storage, the one address instance() can return
SgStorage == 1

VARIABLES
  m_state,             \* std::atomic<int> m_state
  m_initialized,       \* static_fallible_constructed<T>::m_initialized
  sg_owner,            \* the thread holding external_lock, or Null
  sg_pc,               \* where each thread is inside instance()
  sg_res,              \* what each thread's call returns
  sg_calls,            \* calls of instance() each thread has made
  sg_locked,           \* the current call has called Traits::lock
  sg_ready_at_call,    \* m_state was READY when the current call began
  constructor_calls,   \* runs of T's constructor
  init_calls,          \* runs of T::try_init
  sg_failures          \* runs of T::try_init that returned an error

sgVars == <<m_state, m_initialized, sg_owner, sg_pc, sg_res, sg_calls,
            sg_locked, sg_ready_at_call, constructor_calls, init_calls,
            sg_failures>>

\* `result<T *> res;` before anything is stored into it
SgNoRes == [ok |-> TRUE, ptr |-> Null, err |-> "none"]

InitSingleton ==
  /\ m_state = UNINITIALIZED
  /\ m_initialized = FALSE
  /\ sg_owner = Null
  /\ sg_pc = [t \in SgThreads |-> "idle"]
  /\ sg_res = [t \in SgThreads |-> SgNoRes]
  /\ sg_calls = [t \in SgThreads |-> 0]
  /\ sg_locked = [t \in SgThreads |-> FALSE]
  /\ sg_ready_at_call = [t \in SgThreads |-> FALSE]
  /\ constructor_calls = 0
  /\ init_calls = 0
  /\ sg_failures = 0

(***************************************************************************)
(* stack_allocator: a bump allocator over a caller-supplied buffer.        *)
(* Addresses are numbers; buffer_ is the address of the buffer's first     *)
(* byte.                                                                   *)
(***************************************************************************)
\* bounds of the stack allocator model
SaMaxBase == 2
SaMaxBytes == 3
SaMaxBlocks == 3
\* std::size_t arithmetic is modulo SaSizeMod
SaSizeMod == 64

SaBases == 1..SaMaxBase
SaCapacities == {4, 8}
SaAlignments == {1, 2, 4}

VARIABLES
  sa_alive,     \* the allocator has been constructed
  buffer_,      \* std::byte *buffer_
  capacity_,    \* std::size_t capacity_
  offset_,      \* std::size_t offset_
  sa_blocks,    \* blocks handed out since the last reset(), oldest first
  sa_last       \* the last call and its result

saVars == <<sa_alive, buffer_, capacity_, offset_, sa_blocks, sa_last>>

NoSaCall == [op |-> "none"]

InitStack ==
  /\ sa_alive = FALSE
  /\ buffer_ = Null
  /\ capacity_ = 0
  /\ offset_ = 0
  /\ sa_blocks = <<>>
  /\ sa_last = NoSaCall

\* bounds of the lazy-initialisation wrappers model
LzMaxCtors == 2
LzMaxAddr == 2

\* one wrapper of each class template
InPlace ==
  {"fallible_constructed", "static_fallible_constructed",
   "fallible_singleton"}
Wrappers == InPlace \cup {"fallible_allocated"}
\* the wrappers that have a destructor, try_init() and try_get()
Scoped == {"fallible_constructed", "fallible_allocated"}
Direct == Scoped \cup {"static_fallible_constructed"}
LzAddrs == 1..LzMaxAddr
\* T::try_init(key) results
LzResults == {"ok", "invalid_argument", "try_again"}

VARIABLES
  lz_alive,        \* the wrapper object exists
  lz_initialized,  \* bool m_initialized of the in-place wrappers
  m_ptr,           \* T *m_ptr of fallible_allocated
  lz_blocks,       \* blocks the allocator has handed out and not got back
  lz_ctor_calls,   \* T(key) runs, per wrapper
  lz_dtor_calls,   \* ~T() runs, per wrapper
  lz_last          \* the last call and its result

lzVars == <<lz_alive, lz_initialized, m_ptr, lz_blocks, lz_ctor_calls,
            lz_dtor_calls, lz_last>>

NoLzCall == [op |-> "none"]

InitLazy ==
  /\ lz_alive = [w \in Wrappers |-> TRUE]
  /\ lz_initialized = [w \in InPlace |-> FALSE]
  /\ m_ptr = Null
  /\ lz_blocks = {}
  /\ lz_ctor_calls = [w \in Wrappers |-> 0]
  /\ lz_dtor_calls = [w \in Wrappers |-> 0]
  /\ lz_last = NoLzCall

\* number of duplicates of shared objects
NDups == 2
Dups == 1..NDups

VARIABLES
  dup_alive,    \* the duplicate object exists
  weak_this_,   \* weak_this_.block_ of the duplicate
  dup_src       \* the duplicate a thread's shared_from_this() is called on

dupVars == <<dup_alive, weak_this_, dup_src>>

InitDups ==
  /\ dup_alive = [k \in Dups |-> FALSE]
  /\ weak_this_ = [k \in Dups |-> Null]
  /\ dup_src = [t \in Threads |-> Null]

VARIABLES
  live_slots, \* vector -> the slots of its block that hold a live object
  life_ok     \* no object was constructed over a live one, none destroyed,
              \* moved from or relocated that was not live

lifeVars == <<live_slots, life_ok>>

InitLife ==
  /\ live_slots = [v \in Vecs |-> {}]
  /\ life_ok = TRUE

moreVars == <<strVars, sgVars, saVars, lzVars, dupVars, lifeVars>>

InitMore ==
  /\ InitStrings /\ InitSingleton /\ InitStack
  /\ InitLazy /\ InitDups /\ InitLife

restVars == <<crVars, chVars, arVars, moreVars>>

exceptCreate == <<spVars, vecVars, chVars, arVars, moreVars>>
exceptHelpers == <<spVars, vecVars, crVars, arVars, moreVars>>
exceptArrays == <<spVars, vecVars, crVars, chVars, moreVars>>
exceptStrings ==
  <<spVars, vecVars, crVars, chVars, arVars, sgVars, saVars, lzVars, dupVars,
    lifeVars>>
exceptSingleton ==
  <<spVars, vecVars, crVars, chVars, arVars, strVars, saVars, lzVars, dupVars,
    lifeVars>>
exceptStack ==
  <<spVars, vecVars, crVars, chVars, arVars, strVars, sgVars, lzVars, dupVars,
    lifeVars>>
exceptLazy ==
  <<spVars, vecVars, crVars, chVars, arVars, strVars, sgVars, saVars, dupVars,
    lifeVars>>
exceptDups ==
  <<vecVars, crVars, chVars, arVars, strVars, sgVars, saVars, lzVars,
    lifeVars>>
exceptLife ==
  <<spVars, crVars, chVars, arVars, strVars, sgVars, saVars, lzVars, dupVars>>
exceptStackVector ==
  <<spVars, crVars, chVars, arVars, strVars, sgVars, lzVars, dupVars,
    lifeVars>>

InitRest ==
  /\ InitCreate
  /\ ch_caps = {}
  /\ InitHelperFields
  /\ InitArrays
  /\ InitMore

vars == <<spVars, vecVars, restVars>>


\* no call is pending: the caller has seen the result of the last one
NoCall == [op |-> "none"]

\* vector() noexcept : data_(nullptr), size_(0), cap_(0)
InitVectorFields ==
  /\ alive = [v \in Vecs |-> v = 1]
  /\ data_ = [v \in Vecs |-> Null]
  /\ size_ = [v \in Vecs |-> 0]
  /\ cap_ = [v \in Vecs |-> 0]
  /\ mem = [a \in Addrs |-> <<>>]
  /\ last = NoCall
  /\ pushes_only = [v \in Vecs |-> v = 1]

\* element types: int-like, relocatable with a destructor, HeavyType-like
InitVector ==
  /\ InitShared
  /\ InitRest
  /\ \E k \in {<<TRUE, TRUE>>, <<TRUE, FALSE>>, <<FALSE, FALSE>>} :
        /\ is_relocatable = k[1]
        /\ trivially_destructible = k[2]
  /\ InitVectorFields

\* cell i (0-based, as in the source) of a block
At(cells, i) == cells[i + 1]
Put(cells, i, c) == [cells EXCEPT ![i + 1] = c]
RawCells(n) == [i \in 1..n |-> Raw]

\* the elements of vector v as a sequence: data_[0] .. data_[size_ - 1]
Contents(v) ==
  IF data_[v] = Null THEN <<>>
  ELSE [i \in 1..size_[v] |->
          IF i <= Len(mem[data_[v]]) THEN mem[data_[v]][i] ELSE Raw]

\* a call record: operation, vector, arguments, result, and the vector's
\* fields and elements as they were when the call was made
Call(o, v, n, val, res) ==
  [op |-> o, v |-> v, n |-> n, val |-> val, res |-> res,
   old_data |-> data_[v], old_size |-> size_[v], old_cap |-> cap_[v],
   old_elems |-> Contents(v)]

\* p->~T(): a trivial destructor leaves the bytes, any other ends the object
Destroy(c) == IF trivially_destructible THEN c ELSE Raw

\* std::memmove(cells + d, cells + s, n * sizeof(T))
Memmove(cells, d, s, n) ==
  [i \in 1..Len(cells) |->
     IF i - 1 >= d /\ i - 1 < d + n THEN cells[(i - 1) - d + s + 1]
     ELSE cells[i]]

\* the allocator can place a new block: lowest free address
HasFreeAddr == \E a \in Addrs : mem[a] = <<>>
FreshAddr == CHOOSE a \in Addrs :
               mem[a] = <<>> /\ \A b \in Addrs : mem[b] = <<>> => a <= b

(***************************************************************************)
(* try_reserve as a function of the allocator's answers.  out is what the  *)
(* allocator does: "in_place" (expand_in_place succeeds), "same" / "moved" *)
(* (reallocate or allocate succeeds, at the old or at a new address),      *)
(* "fail" (allocation_failed).  limit: cells the allocator's arena holds.   *)
(***************************************************************************)
ReserveOuts == {"in_place", "same", "moved", "fail"}

\* cells the allocator has handed out in blocks other than block a
RECURSIVE CellsIn(_)
CellsIn(S) ==
  IF S = {} THEN 0
  ELSE LET a == CHOOSE x \in S : TRUE IN Len(mem[a]) + CellsIn(S \ {a})

UsedElsewhere(a) == CellsIn(Addrs \ {a})

\* which answers the allocator can give for this request
OutPossible(v, new_cap, out, limit) ==
  LET fits == UsedElsewhere(data_[v]) + new_cap <= limit IN
  CASE out = "fail" -> TRUE
    [] out = "in_place" -> data_[v] # Null /\ fits
    [] out = "same" -> data_[v] # Null /\ is_relocatable /\ fits
    [] out = "moved" -> HasFreeAddr /\ fits

Unreserved(v) ==
  [ok |-> TRUE, data |-> data_[v], cap |-> cap_[v], mem |-> mem]

\* `if (new_cap <= cap_) return {};`
ReserveNeeded(v, new_cap) == new_cap > cap_[v]

\* what the relocation path stores back into cap_
ReservedCap(new_cap) == new_cap

\* a failing reservation that has already stored the requested capacity
ReserveFailed_cap_written(v, new_cap) ==
  [Unreserved(v) EXCEPT !.ok = FALSE, !.cap = new_cap]

\* `if (!res) return unexpected(error::allocation_failed);`
ReserveFailed(v, new_cap) == [Unreserved(v) EXCEPT !.ok = FALSE]

\* a move loop that stops one element short
MoveLoop_short(old, n, new_cap) ==
  [i \in 1..new_cap |-> IF i < n THEN old[i] ELSE Raw]

\* cells of the new block after the element-wise move+destroy loop
MoveLoop(old, n, new_cap) ==
  [i \in 1..new_cap |-> IF i <= n THEN old[i] ELSE Raw]

\* cells of the block returned by reallocate: old_size bytes are kept
ReallocCells(old, new_cap) ==
  [i \in 1..new_cap |-> IF i <= Len(old) THEN old[i] ELSE Raw]

try_reserve_result(v, new_cap, out) ==
  IF ~ReserveNeeded(v, new_cap) THEN Unreserved(v)
  ELSE IF out = "in_place"
    THEN [ok |-> TRUE, data |-> data_[v], cap |-> ReservedCap(new_cap),
          mem |-> [mem EXCEPT ![data_[v]] = ReallocCells(@, new_cap)]]
  ELSE IF out = "fail"
    THEN ReserveFailed(v, new_cap)
  ELSE IF is_relocatable
    THEN IF out = "same"
           THEN [ok |-> TRUE, data |-> data_[v], cap |-> ReservedCap(new_cap),
                 mem |-> [mem EXCEPT ![data_[v]] = ReallocCells(@, new_cap)]]
           ELSE LET a == FreshAddr
                    old == IF data_[v] = Null THEN <<>> ELSE mem[data_[v]]
                    m1 == [mem EXCEPT ![a] = ReallocCells(old, new_cap)]
                IN [ok |-> TRUE, data |-> a, cap |-> ReservedCap(new_cap),
                    mem |-> IF data_[v] = Null THEN m1
                            ELSE [m1 EXCEPT ![data_[v]] = <<>>]]
    ELSE LET a == FreshAddr
             old == IF data_[v] = Null THEN <<>> ELSE mem[data_[v]]
             m1 == [mem EXCEPT ![a] = MoveLoop(old, size_[v], new_cap)]
         IN [ok |-> TRUE, data |-> a, cap |-> ReservedCap(new_cap),
             mem |-> IF data_[v] = Null THEN m1
                     ELSE [m1 EXCEPT ![data_[v]] = <<>>]]

\* a growth rule that starts at 4
GrowTo_four(cap) == IF cap = 0 THEN 4 ELSE cap * 2

\* `cap_ == 0 ? 8 : cap_ * 2`
GrowTo(cap) == IF cap = 0 THEN 8 ELSE cap * 2

\* the reservation a push or insert makes first: `if (size_ == cap_)`
ensure_capacity(v, out) ==
  IF size_[v] = cap_[v] THEN try_reserve_result(v, GrowTo(cap_[v]), out)
  ELSE Unreserved(v)

EnsureOutPossible(v, out, limit) ==
  IF size_[v] = cap_[v] THEN OutPossible(v, GrowTo(cap_[v]), out, limit)
  ELSE out = "fail"

SetBuffer(v, r) ==
  /\ data_' = [data_ EXCEPT ![v] = r.data]
  /\ cap_' = [cap_ EXCEPT ![v] = r.cap]

try_reserve(v, new_cap, out, limit) ==
  /\ last = NoCall
  /\ alive[v]
  /\ IF ReserveNeeded(v, new_cap) THEN OutPossible(v, new_cap, out, limit)
     ELSE out = "fail"
  /\ LET r == try_reserve_result(v, new_cap, out) IN
       /\ SetBuffer(v, r)
       /\ mem' = r.mem
       /\ last' = Call("try_reserve", v, new_cap, 0,
                       IF r.ok THEN "ok" ELSE "allocation_failed")
  /\ pushes_only' = [pushes_only EXCEPT ![v] = FALSE]
  /\ UNCHANGED <<is_relocatable, trivially_destructible, alive, size_>>


\* try_push_back(T&& val)
try_push_back(v, val, out, limit) ==
  /\ last = NoCall
  /\ alive[v]
  /\ EnsureOutPossible(v, out, limit)
  /\ LET r == ensure_capacity(v, out) IN
       /\ SetBuffer(v, r)
       /\ IF r.ok
            THEN /\ mem' = [r.mem EXCEPT ![r.data] = Put(@, size_[v], val)]
                 /\ size_' = [size_ EXCEPT ![v] = @ + 1]
                 /\ last' = Call("try_push_back", v, 0, val, "ok")
            ELSE /\ mem' = r.mem
                 /\ UNCHANGED size_
                 /\ last' = Call("try_push_back", v, 0, val,
                                 "allocation_failed")
  /\ pushes_only' = [pushes_only EXCEPT ![v] = @ /\ val = size_[v]]
  /\ UNCHANGED <<is_relocatable, trivially_destructible, alive>>

\* an emplace that counts the element before it is created
EmplacedSize_counted(n, created) == n + 1

\* try_emplace_back: `size_++` is reached only past the factory's error
\* return
EmplacedSize(n, created) == IF created THEN n + 1 ELSE n

\* try_emplace_back(args...); created: T::try_create(args...) succeeded
\* (always, for a type without try_create)
try_emplace_back(v, val, out, created, limit) ==
  /\ last = NoCall
  /\ alive[v]
  /\ EnsureOutPossible(v, out, limit)
  /\ LET r == ensure_capacity(v, out) IN
       /\ SetBuffer(v, r)
       /\ IF r.ok /\ created
            THEN /\ mem' = [r.mem EXCEPT ![r.data] = Put(@, size_[v], val)]
                 /\ size_' = [size_ EXCEPT ![v] = EmplacedSize(@, created)]
                 /\ last' = Call("try_emplace_back", v, 0, val, "ok")
            ELSE /\ mem' = r.mem
                 /\ size_' = [size_ EXCEPT
                      ![v] = IF r.ok THEN EmplacedSize(@, created) ELSE @]
                 /\ last' = Call("try_emplace_back", v, 0, val,
                                 IF r.ok THEN "invalid_argument"
                                 ELSE "allocation_failed")
  /\ pushes_only' = [pushes_only EXCEPT ![v] = FALSE]
  /\ UNCHANGED <<is_relocatable, trivially_destructible, alive>>

\* try_pop_back()
try_pop_back(v) ==
  /\ last = NoCall
  /\ alive[v]
  /\ IF size_[v] = 0
       THEN /\ last' = Call("try_pop_back", v, 0, 0, "out_of_range")
            /\ UNCHANGED <<size_, mem>>
       ELSE /\ size_' = [size_ EXCEPT ![v] = @ - 1]
            /\ mem' = [mem EXCEPT ![data_[v]] =
                         Put(@, size_[v] - 1, Destroy(At(@, size_[v] - 1)))]
            /\ last' = Call("try_pop_back", v, 0, 0, "ok")
  /\ pushes_only' = [pushes_only EXCEPT ![v] = FALSE]
  /\ UNCHANGED <<is_relocatable, trivially_destructible, alive, data_, cap_>>

\* the cells of vector v's block (none when data_ is null)
Block(v) == IF data_[v] = Null THEN <<>> ELSE mem[data_[v]]

\* the objects a loop running ~T() over cells [from, from + n) ends; a
\* trivial destructor is not called at all
Dtors(cells, from, n) ==
  IF trivially_destructible THEN <<>>
  ELSE [i \in 1..n |-> At(cells, from + i - 1)]

\* a clear that runs the destructor loop over the whole capacity
ClearCount_cap(v) == cap_[v]

\* clear: `for (i = 0; i < size_; ++i) data_[i].~T();`
ClearCount(v) == size_[v]

\* `constexpr std::size_t DISCARD_THRESHOLD = 64 * 1024;`
DISCARD_THRESHOLD == 65536

\* sizeof(T) of the element types: an int, and a 32 KiB record
ElemSizes == {4, 32768}

\* a clear that advises the allocator whatever the size
AdviseSent_always(bytes) == TRUE

\* `if (bytes >= DISCARD_THRESHOLD) alloc_->advise(data_, bytes, dont_need)`
AdviseSent(bytes) == bytes >= DISCARD_THRESHOLD

\* clear(): destroy [0, size_), size_ = 0, then the advise hint for the
\* cap_ * sizeof(T) bytes of the block (a hint moves no data).  elem_size:
\* sizeof(T)
clear(v, elem_size) ==
  /\ last = NoCall
  /\ alive[v]
  /\ size_' = [size_ EXCEPT ![v] = 0]
  /\ mem' = IF data_[v] = Null THEN mem
            ELSE [mem EXCEPT ![data_[v]] =
                    [i \in 1..Len(@) |->
                       IF i <= ClearCount(v) THEN Destroy(@[i]) ELSE @[i]]]
  /\ last' = Call("clear", v, 0, 0, "ok") @@
               [dtors |-> Dtors(Block(v), 0, ClearCount(v)),
                old_block |-> Block(v),
                bytes |-> cap_[v] * elem_size,
                advised |-> AdviseSent(cap_[v] * elem_size)]
  /\ pushes_only' = [pushes_only EXCEPT ![v] = FALSE]
  /\ UNCHANGED <<is_relocatable, trivially_destructible, alive, data_, cap_>>

\* try_erase, element-wise path: for i in [0, move_count):
\*   new (data_+pos+i) T(std::move(data_[pos+i+1])); data_[pos+i+1].~T();
RECURSIVE EraseLoop(_, _, _, _)
EraseLoop(cells, pos, i, move_count) ==
  IF i < move_count
    THEN EraseLoop(Put(Put(cells, pos + i, At(cells, pos + i + 1)),
                       pos + i + 1, Destroy(Moved)),
                   pos, i + 1, move_count)
    ELSE cells

\* a shift that moves one element too few
EraseShift_short(cells, pos, n) ==
  LET c0 == Put(cells, pos, Destroy(At(cells, pos)))
      move_count == n - pos - 2
  IN IF move_count > 0
       THEN IF is_relocatable THEN Memmove(c0, pos, pos + 1, move_count)
            ELSE EraseLoop(c0, pos, 0, move_count)
       ELSE c0

\* try_erase: destroy data_[pos], shift [pos + 1, size_) one cell left
EraseShift(cells, pos, n) ==
  LET c0 == Put(cells, pos, Destroy(At(cells, pos)))
      move_count == n - pos - 1
  IN IF move_count > 0
       THEN IF is_relocatable THEN Memmove(c0, pos, pos + 1, move_count)
            ELSE EraseLoop(c0, pos, 0, move_count)
       ELSE c0

\* the objects try_erase(pos) runs ~T() on: the element at pos, then, on
\* the element-wise path, each moved-from object the loop leaves behind
EraseDtors(cells, pos, n) ==
  Dtors(cells, pos, 1) \o
    (IF is_relocatable THEN <<>>
     ELSE [i \in 1..(n - pos - 1) |-> Moved])

\* a range check that also rejects the last element
EraseInRange_strict(pos, n) == pos + 1 < n

\* `if (pos >= size_) return out_of_range`
EraseInRange(pos, n) == pos < n

\* try_erase(pos)
try_erase(v, pos) ==
  /\ last = NoCall
  /\ alive[v]
  /\ IF ~EraseInRange(pos, size_[v])
       THEN /\ last' = Call("try_erase", v, pos, 0, "out_of_range")
            /\ UNCHANGED <<size_, mem>>
       ELSE /\ mem' = [mem EXCEPT ![data_[v]] = EraseShift(@, pos, size_[v])]
            /\ size_' = [size_ EXCEPT ![v] = @ - 1]
            /\ last' = Call("try_erase", v, pos, 0, "ok") @@
                         [dtors |-> EraseDtors(Block(v), pos, size_[v])]
  /\ pushes_only' = [pushes_only EXCEPT ![v] = FALSE]
  /\ UNCHANGED <<is_relocatable, trivially_destructible, alive, data_, cap_>>

\* try_insert, element-wise path: for (i = size_ - 1; i > pos; --i)
\*   data_[i] = std::move(data_[i - 1]);
RECURSIVE InsertLoop(_, _, _)
InsertLoop(cells, i, pos) ==
  IF i > pos
    THEN InsertLoop(Put(Put(cells, i, At(cells, i - 1)), i - 1, Moved),
                    i - 1, pos)
    ELSE cells

\* a shift that leaves the element at pos where it was
InsertShift_short(cells, pos, n) ==
  LET move_count == n - pos IN
  IF move_count > 0
    THEN IF is_relocatable
           THEN Memmove(cells, pos + 2, pos + 1, move_count - 1)
         ELSE LET c0 == Put(Put(cells, n, At(cells, n - 1)), n - 1, Moved)
                  c1 == InsertLoop(c0, n - 1, pos + 1)
              IN Put(c1, pos, Destroy(At(c1, pos)))
    ELSE cells

\* try_insert: the elements [pos, size_) are shifted one cell to the right
InsertShift(cells, pos, n) ==
  LET move_count == n - pos IN
  IF move_count > 0
    THEN IF is_relocatable THEN Memmove(cells, pos + 1, pos, move_count)
         ELSE LET c0 == Put(Put(cells, n, At(cells, n - 1)), n - 1, Moved)
                  c1 == InsertLoop(c0, n - 1, pos)
              IN Put(c1, pos, Destroy(At(c1, pos)))
    ELSE cells

\* one step of a shift: what is done, and on which cells
ShiftOp(o, from, to) == [op |-> o, from |-> from, to |-> to]

\* a shift that move-constructs every element one cell up and destroys the
\* cell it came from
InsertOps_per_slot(pos, n) ==
  IF n - pos > 0 /\ ~is_relocatable
    THEN [k \in 1..(2 * (n - pos)) |->
            IF k % 2 = 1
              THEN ShiftOp("move_construct", n - 1 - (k \div 2),
                           n - (k \div 2))
              ELSE ShiftOp("destroy", n - (k \div 2), n - (k \div 2))]
  ELSE IF n - pos > 0 THEN <<ShiftOp("memmove", pos, pos + 1)>>
  ELSE <<>>

\* try_insert, the operations of the shift in the order the code runs
\* them: memmove for a relocatable type; otherwise placement new of
\* data_[size_] from data_[size_ - 1], move assignments data_[i] =
\* std::move(data_[i - 1]) for i = size_ - 1 down to pos + 1, then
\* data_[pos].~T() unless the destructor is trivial
InsertOps(pos, n) ==
  IF n - pos > 0 /\ ~is_relocatable
    THEN <<ShiftOp("move_construct", n - 1, n)>>
           \o [k \in 1..(n - 1 - pos) |->
                 ShiftOp("move_assign", n - 1 - k, n - k)]
           \o (IF trivially_destructible THEN <<>>
               ELSE <<ShiftOp("destroy", pos, pos)>>)
  ELSE IF n - pos > 0 THEN <<ShiftOp("memmove", pos, pos + 1)>>
  ELSE <<>>

\* `if (pos > size_) return out_of_range`
InsertInRange(pos, n) == pos <= n

\* try_insert(pos, args...)
try_insert(v, pos, val, out, limit) ==
  /\ last = NoCall
  /\ alive[v]
  /\ IF InsertInRange(pos, size_[v]) THEN EnsureOutPossible(v, out, limit)
     ELSE out = "fail"
  /\ IF ~InsertInRange(pos, size_[v])
       THEN /\ last' = Call("try_insert", v, pos, val, "out_of_range")
            /\ UNCHANGED <<data_, cap_, size_, mem>>
       ELSE LET r == ensure_capacity(v, out) IN
            /\ SetBuffer(v, r)
            /\ IF r.ok
                 THEN /\ mem' = [r.mem EXCEPT ![r.data] =
                           Put(InsertShift(@, pos, size_[v]), pos, val)]
                      /\ size_' = [size_ EXCEPT ![v] = @ + 1]
                      /\ last' = Call("try_insert", v, pos, val, "ok") @@
                                   [ops |-> InsertOps(pos, size_[v])]
                 ELSE /\ mem' = r.mem
                      /\ UNCHANGED size_
                      /\ last' = Call("try_insert", v, pos, val,
                                      "allocation_failed")
  /\ pushes_only' = [pushes_only EXCEPT ![v] = FALSE]
  /\ UNCHANGED <<is_relocatable, trivially_destructible, alive>>

\* a moved-from vector that keeps its capacity field
MovedFrom_cap_kept(s) == [data |-> Null, size |-> 0, cap |-> cap_[s]]

\* other.data_ = nullptr; other.size_ = 0; other.cap_ = 0;
MovedFrom(s) == [data |-> Null, size |-> 0, cap |-> 0]

\* vector(vector&& other): d is built from s, s is left empty
move_ctor(d, s) ==
  /\ last = NoCall
  /\ ~alive[d]
  /\ alive[s]
  /\ alive' = [alive EXCEPT ![d] = TRUE]
  /\ data_' = [data_ EXCEPT ![d] = data_[s], ![s] = MovedFrom(s).data]
  /\ size_' = [size_ EXCEPT ![d] = size_[s], ![s] = MovedFrom(s).size]
  /\ cap_' = [cap_ EXCEPT ![d] = cap_[s], ![s] = MovedFrom(s).cap]
  /\ last' = Call("move_ctor", s, d, 0, "ok")
  /\ pushes_only' = [pushes_only EXCEPT ![d] = FALSE, ![s] = FALSE]
  /\ UNCHANGED <<is_relocatable, trivially_destructible, mem>>

\* ~vector(): destroy the elements, hand the block back
dtor(v) ==
  /\ last = NoCall
  /\ alive[v]
  /\ alive' = [alive EXCEPT ![v] = FALSE]
  /\ mem' = IF data_[v] = Null THEN mem ELSE [mem EXCEPT ![data_[v]] = <<>>]
  /\ data_' = [data_ EXCEPT ![v] = Null]
  /\ size_' = [size_ EXCEPT ![v] = 0]
  /\ cap_' = [cap_ EXCEPT ![v] = 0]
  /\ last' = Call("dtor", v, 0, 0, "ok")
  /\ pushes_only' = [pushes_only EXCEPT ![v] = FALSE]
  /\ UNCHANGED <<is_relocatable, trivially_destructible>>

\* vector(): a new, empty vector
ctor(v) ==
  /\ last = NoCall
  /\ ~alive[v]
  /\ alive' = [alive EXCEPT ![v] = TRUE]
  /\ last' = Call("ctor", v, 0, 0, "ok")
  /\ pushes_only' = [pushes_only EXCEPT ![v] = TRUE]
  /\ UNCHANGED <<is_relocatable, trivially_destructible, data_, size_, cap_,
                 mem>>

(***************************************************************************)
(* try_clone: a local vector `clone` on the source's allocator reserves    *)
(* size_ cells and is filled from the source; it is returned by value on   *)
(* success and destroyed by its destructor on every error return.          *)
(***************************************************************************)
\* how the element type is copied: `!has_try_clone<T> &&
\* is_trivially_copyable_v<T>` -> memcpy, has_try_clone<T> -> data_[i].try_clone(),
\* otherwise the copy constructor T(data_[i])
ClonePaths == {"memcpy", "try_clone", "copy"}

\* no element's try_clone fails
NoFail == -1

\* a copy of one element: the copy constructor, data_[i].try_clone() and the
\* bytes memcpy moves all give an element equal to the source's
CloneOf(c) == c

\* a loop that fills the clone from the source's far end
ClonedCells_reversed(cells, src, n) ==
  [i \in 1..Len(cells) |->
     IF i <= n THEN CloneOf(src[Len(src) + 1 - i]) ELSE cells[i]]

\* the clone's block after elements [0, n) were copied: memcpy of n elements,
\* or n rounds of clone.try_push_back(copy of data_[i])
ClonedCells(cells, src, n) ==
  [i \in 1..Len(cells) |-> IF i <= n THEN CloneOf(src[i]) ELSE cells[i]]

\* a loop that goes on to the next element after a failed try_clone
ClonedBefore_next(n, k) == IF k = NoFail THEN n ELSE k + 1

\* elements copied when the loop ends: all n, or the k before the element
\* whose try_clone failed (`if (!item_res) return unexpected(...)`)
ClonedBefore(n, k) == IF k = NoFail THEN n ELSE k

\* ~vector() of the local clone holding n elements in block a: the
\* destructor loop over [0, size_), then one deallocate
DiscardClone(cells, a, n) ==
  [dtors |-> Dtors(cells, 0, n),
   released |-> IF a = Null THEN <<>> ELSE <<a>>]

\* s.try_clone(), its value move-constructed into d on success.  out: the
\* allocator's answer to clone.try_reserve(size_); k: the element whose
\* try_clone fails with err, or NoFail
try_clone(d, s, path, out, k, err, limit) ==
  /\ last = NoCall
  /\ alive[s]
  /\ ~alive[d]
  /\ path = "memcpy" => trivially_destructible
  /\ k # NoFail => (path = "try_clone" /\ k < size_[s] /\ out # "fail")
  /\ IF ReserveNeeded(d, size_[s]) THEN OutPossible(d, size_[s], out, limit)
     ELSE out = "moved"
  /\ LET r == try_reserve_result(d, size_[s], out)
         n == ClonedBefore(size_[s], k)
         cells == IF r.data = Null THEN <<>>
                  ELSE ClonedCells(r.mem[r.data], Contents(s), n)
         rec == Call("try_clone", s, d, k, "ok") @@
                  [path |-> path, block |-> r.data, cloned |-> n,
                   elem_err |-> IF k = NoFail THEN "none" ELSE err,
                   clone_elems |-> IF r.ok THEN SubSeq(cells, 1, n) ELSE <<>>,
                   dtors |-> <<>>, released |-> <<>>]
     IN
       IF ~r.ok
         THEN /\ last' = [rec EXCEPT !.res = "allocation_failed",
                                     !.block = Null, !.cloned = 0,
                                     !.clone_elems = <<>>]
              /\ UNCHANGED <<alive, data_, size_, cap_, mem>>
       ELSE IF k # NoFail
         THEN LET gone == DiscardClone(cells, r.data, n) IN
              /\ last' = [rec EXCEPT !.res = err, !.dtors = gone.dtors,
                                     !.released = gone.released]
              /\ mem' = [a \in Addrs |->
                           IF \E i \in 1..Len(gone.released) :
                                gone.released[i] = a
                             THEN <<>>
                           ELSE IF a = r.data THEN cells ELSE r.mem[a]]
              /\ UNCHANGED <<alive, data_, size_, cap_>>
       ELSE /\ last' = rec
            /\ alive' = [alive EXCEPT ![d] = TRUE]
            /\ data_' = [data_ EXCEPT ![d] = r.data]
            /\ size_' = [size_ EXCEPT ![d] = n]
            /\ cap_' = [cap_ EXCEPT ![d] = r.cap]
            /\ mem' = IF r.data = Null THEN r.mem
                      ELSE [r.mem EXCEPT ![r.data] = cells]
  /\ pushes_only' = [pushes_only EXCEPT ![d] = FALSE]
  /\ UNCHANGED <<is_relocatable, trivially_destructible>>

\* the caller has consumed the result of the call
vector_return ==
  /\ last # NoCall
  /\ last' = NoCall
  /\ UNCHANGED <<is_relocatable, trivially_destructible, alive, data_, size_,
                 cap_, mem, pushes_only>>

(***************************************************************************)
(* The steps of try_allocate_shared / try_allocate_combined_shared.  r is  *)
(* what the step's callee returns: "ok" or an error.                       *)
(***************************************************************************)
\* errors fallible_allocator::allocate returns
AllocErrors == {"allocation_failed", "invalid_argument"}

\* errors T::try_create returns
FactoryErrors == {"invalid_argument", "out_of_range"}

HeldBy(i) == {k \in {"object", "control", "combined"} : <<i, k>> \in cr_held}

CrFail(i, step, r) ==
  /\ cr_result' = [cr_result EXCEPT ![i] = r]
  /\ cr_fault' = [cr_fault EXCEPT ![i] = <<step, r>>]
  /\ cr_pc' = [cr_pc EXCEPT ![i] = "failed"]

\* auto block_t = alloc.allocate(sizeof(T), alignof(T));
tas_allocate_object(i, factory, r) ==
  /\ cr_pc[i] = "idle"
  /\ cr_layout' = [cr_layout EXCEPT ![i] = "separate"]
  /\ cr_factory' = [cr_factory EXCEPT ![i] = factory]
  /\ IF r = "ok"
       THEN /\ cr_held' = cr_held \cup {<<i, "object">>}
            /\ cr_pc' = [cr_pc EXCEPT ![i] = "create"]
            /\ UNCHANGED <<cr_result, cr_fault>>
       ELSE /\ CrFail(i, "allocate_object", r)
            /\ UNCHANGED cr_held
  /\ UNCHANGED cr_objects

\* the blocks still held once the factory has failed
tas_create_unwind_kept(held, i) == held

\* factory failed: alloc.deallocate(block_t->ptr, sizeof(T));
tas_create_unwind(held, i) == held \ {<<i, "object">>}

\* T::try_create(args...) and placement new, or plain placement new; the
\* temporary holding the factory's value ends with the block
tas_create(i, r) ==
  /\ cr_pc[i] = "create"
  /\ cr_layout[i] = "separate"
  /\ cr_factory[i] \/ r = "ok"
  /\ IF r = "ok"
       THEN /\ cr_objects' = [cr_objects EXCEPT ![i] = @ + 1]
            /\ cr_pc' = [cr_pc EXCEPT ![i] = "allocate_block"]
            /\ UNCHANGED <<cr_held, cr_result, cr_fault>>
       ELSE /\ cr_held' = tas_create_unwind(cr_held, i)
            /\ CrFail(i, "create", r)
            /\ UNCHANGED cr_objects
  /\ UNCHANGED <<cr_layout, cr_factory>>

\* control block allocation failed: raw_ptr->~T(); deallocate(block_t->ptr)
tas_allocate_block(i, r) ==
  /\ cr_pc[i] = "allocate_block"
  /\ IF r = "ok"
       THEN /\ cr_held' = cr_held \cup {<<i, "control">>}
            /\ cr_result' = [cr_result EXCEPT ![i] = "ok"]
            /\ cr_pc' = [cr_pc EXCEPT ![i] = "owned"]
            /\ UNCHANGED <<cr_objects, cr_fault>>
       ELSE /\ cr_objects' = [cr_objects EXCEPT ![i] = @ - 1]
            /\ cr_held' = cr_held \ {<<i, "object">>}
            /\ CrFail(i, "allocate_block", r)
  /\ UNCHANGED <<cr_layout, cr_factory>>

\* auto block_t = alloc.allocate(sizeof(CombinedType), ...); new (combined)
tacs_allocate(i, factory, r) ==
  /\ cr_pc[i] = "idle"
  /\ cr_layout' = [cr_layout EXCEPT ![i] = "combined"]
  /\ cr_factory' = [cr_factory EXCEPT ![i] = factory]
  /\ IF r = "ok"
       THEN /\ cr_held' = cr_held \cup {<<i, "combined">>}
            /\ cr_pc' = [cr_pc EXCEPT ![i] = "create"]
            /\ UNCHANGED <<cr_result, cr_fault>>
       ELSE /\ CrFail(i, "allocate_combined", r)
            /\ UNCHANGED cr_held
  /\ UNCHANGED cr_objects

\* factory failed: alloc.deallocate(combined, sizeof(CombinedType)); else
\* the object is built in the block's storage and the handle returned
tacs_create(i, r) ==
  /\ cr_pc[i] = "create"
  /\ cr_layout[i] = "combined"
  /\ cr_factory[i] \/ r = "ok"
  /\ IF r = "ok"
       THEN /\ cr_objects' = [cr_objects EXCEPT ![i] = @ + 1]
            /\ cr_result' = [cr_result EXCEPT ![i] = "ok"]
            /\ cr_pc' = [cr_pc EXCEPT ![i] = "owned"]
            /\ UNCHANGED <<cr_held, cr_fault>>
       ELSE /\ cr_held' = cr_held \ {<<i, "combined">>}
            /\ CrFail(i, "create", r)
            /\ UNCHANGED cr_objects
  /\ UNCHANGED <<cr_layout, cr_factory>>

\* the only handle is dropped: delete_ptr runs ~T(), delete_control_block
\* deallocates the block that holds the counters (the control block of the
\* separate layout, the whole region of the combined one)
cr_release(i) ==
  /\ cr_pc[i] = "owned"
  /\ cr_objects' = [cr_objects EXCEPT ![i] = @ - 1]
  /\ cr_held' = cr_held \ {<<i, "control">>, <<i, "combined">>}
  /\ cr_pc' = [cr_pc EXCEPT ![i] = "released"]
  /\ UNCHANGED <<cr_layout, cr_factory, cr_result, cr_fault>>

NextCreate ==
  \E i \in Attempts :
    \/ /\ \E factory \in BOOLEAN, r \in {"ok"} \cup AllocErrors :
             tas_allocate_object(i, factory, r)
       /\ UNCHANGED exceptCreate
    \/ /\ \E r \in {"ok"} \cup FactoryErrors : tas_create(i, r)
       /\ UNCHANGED exceptCreate
    \/ /\ \E r \in {"ok"} \cup AllocErrors : tas_allocate_block(i, r)
       /\ UNCHANGED exceptCreate
    \/ /\ \E factory \in BOOLEAN, r \in {"ok"} \cup AllocErrors :
             tacs_allocate(i, factory, r)
       /\ UNCHANGED exceptCreate
    \/ /\ \E r \in {"ok"} \cup FactoryErrors : tacs_create(i, r)
       /\ UNCHANGED exceptCreate
    \/ cr_release(i) /\ UNCHANGED exceptCreate

(***************************************************************************)
(* The helpers.  a: the allocator the caller passes; r: what the chosen    *)
(* strategy's callee returns ("ok" or an error).                           *)
(***************************************************************************)
HelperErrors == {"invalid_argument", "allocation_failed"}

\* a dispatch that tries the allocator-aware factory first
ConstructStrategy_factory_first(caps) ==
  IF "try_allocate" \in caps THEN "try_allocate"
  ELSE IF "try_construct" \in caps THEN "try_construct"
  ELSE IF "try_create" \in caps THEN "try_create"
  ELSE "plain"

\* try_construct: the if constexpr chain
ConstructStrategy(caps) ==
  IF "try_construct" \in caps THEN "try_construct"
  ELSE IF "try_allocate" \in caps THEN "try_allocate"
  ELSE IF "try_create" \in caps THEN "try_create"
  ELSE "plain"

\* a value dispatch that tries the allocator-agnostic factory first
AllocateStrategy_create_first(caps) ==
  IF "try_create" \in caps THEN "try_create"
  ELSE IF "try_allocate" \in caps THEN "try_allocate"
  ELSE IF "try_construct" \in caps THEN "try_construct"
  ELSE "plain"

\* try_allocate: the if constexpr chain
AllocateStrategy(caps) ==
  IF "try_allocate" \in caps THEN "try_allocate"
  ELSE IF "try_create" \in caps THEN "try_create"
  ELSE IF "try_construct" \in caps THEN "try_construct"
  ELSE "plain"

\* a clone dispatch that tries the self-contained clone first
CloneStrategy_self_first(caps) ==
  IF "try_clone" \in caps THEN "try_clone"
  ELSE IF "try_clone_alloc" \in caps THEN "try_clone_alloc"
  ELSE IF "try_allocate_src" \in caps THEN "try_allocate_src"
  ELSE IF "try_create_src" \in caps THEN "try_create_src"
  ELSE "copy"

\* try_clone: the if constexpr chain
CloneStrategy(caps) ==
  IF "try_clone_alloc" \in caps THEN "try_clone_alloc"
  ELSE IF "try_clone" \in caps THEN "try_clone"
  ELSE IF "try_allocate_src" \in caps THEN "try_allocate_src"
  ELSE IF "try_create_src" \in caps THEN "try_create_src"
  ELSE "copy"

\* plain construction and plain copy are noexcept: they cannot fail
CanFail(strategy) == strategy \notin {"plain", "copy"}

\* the strategies that are handed the caller's allocator
TakesAllocator(strategy) ==
  strategy \in {"try_allocate", "try_clone_alloc", "try_allocate_src"}

\* the allocator a strategy sees (0: none)
AllocSeen(strategy, a) == IF TakesAllocator(strategy) THEN a ELSE 0

\* a rollback that leaves the shell in the storage
ShellDtors_none(strategy, r) == 0

\* try_construct: `if (!res) { storage->~T(); return res; }`
ShellDtors(strategy, r) ==
  IF strategy = "try_construct" /\ r # "ok" THEN 1 ELSE 0

\* try_construct: `new (storage) T();` of the two-phase path
ShellCtors(strategy) == IF strategy = "try_construct" THEN 1 ELSE 0

\* objects try_construct builds in the storage: the shell, or the value a
\* factory returned, or the plainly constructed object
Built(strategy, r) ==
  IF strategy = "try_construct" \/ r = "ok" THEN 1 ELSE 0

HelperCall(fn, strategy, a, r, ctors, dtors) ==
  [op |-> fn, strategy |-> strategy, calls |-> <<strategy>>, a |-> a,
   alloc_seen |-> AllocSeen(strategy, a), r |-> r, res |-> r,
   shell_ctors |-> ctors, shell_dtors |-> dtors]

\* construction_helpers::try_construct(alloc, storage, args...)
ch_try_construct(a, r) ==
  /\ ch_last.op = "none"
  /\ ch_storage = 0
  /\ LET st == ConstructStrategy(ch_caps) IN
       /\ CanFail(st) \/ r = "ok"
       /\ ch_storage' = Built(st, r) - ShellDtors(st, r)
       /\ ch_used' = [ch_used EXCEPT !["try_construct"] = st]
       /\ ch_last' = HelperCall("try_construct", st, a, r, ShellCtors(st),
                                ShellDtors(st, r))
  /\ UNCHANGED ch_caps

\* construction_helpers::try_allocate(alloc, args...): the two-phase path
\* builds the shell in a local that ends with the call
ch_try_allocate(a, r) ==
  /\ ch_last.op = "none"
  /\ LET st == AllocateStrategy(ch_caps) IN
       /\ CanFail(st) \/ r = "ok"
       /\ ch_used' = [ch_used EXCEPT !["try_allocate"] = st]
       /\ ch_last' = HelperCall("try_allocate", st, a, r, ShellCtors(st),
                                ShellCtors(st))
  /\ UNCHANGED <<ch_caps, ch_storage>>

\* construction_helpers::try_clone(alloc, source)
ch_try_clone(a, r) ==
  /\ ch_last.op = "none"
  /\ LET st == CloneStrategy(ch_caps) IN
       /\ CanFail(st) \/ r = "ok"
       /\ ch_used' = [ch_used EXCEPT !["try_clone"] = st]
       /\ ch_last' = HelperCall("try_clone", st, a, r, 0, 0)
  /\ UNCHANGED <<ch_caps, ch_storage>>

\* the caller takes the result and ends the object it had built
ch_return ==
  /\ ch_last.op # "none"
  /\ ch_last' = [op |-> "none"]
  /\ ch_storage' = 0
  /\ UNCHANGED <<ch_caps, ch_used>>

InitHelpers ==
  /\ InitShared
  /\ is_relocatable = TRUE
  /\ trivially_destructible = TRUE
  /\ InitVectorFields
  /\ InitCreate
  /\ InitArrays
  /\ InitMore
  /\ ch_caps \in SUBSET Caps
  /\ InitHelperFields

NextHelpers ==
  \/ /\ \E a \in Allocs, r \in {"ok"} \cup HelperErrors :
          ch_try_construct(a, r)
     /\ UNCHANGED exceptHelpers
  \/ /\ \E a \in Allocs, r \in {"ok"} \cup HelperErrors :
          ch_try_allocate(a, r)
     /\ UNCHANGED exceptHelpers
  \/ /\ \E a \in Allocs, r \in {"ok"} \cup HelperErrors : ch_try_clone(a, r)
     /\ UNCHANGED exceptHelpers
  \/ ch_return /\ UNCHANGED exceptHelpers

(***************************************************************************)
(* allocate_array, one step per allocator call and per loop iteration.     *)
(***************************************************************************)
\* detail::check_mul: TRUE when a * b does not fit size_t
check_mul(a, b) == a * b > SizeMax

ArDone(res, step, k) ==
  /\ ar_pc' = "done"
  /\ ar_result' = res
  /\ ar_fault' = [step |-> step, err |-> res, k |-> k]

\* the checks and the allocation of allocate_array(count); r: what the
\* allocator returns
ar_allocate(n, sz, trivial, r) ==
  /\ ar_pc = "idle"
  /\ ar_count' = n
  /\ ar_trivial' = trivial
  /\ ar_stats' = NoStats
  /\ ar_initialized' = 0
  /\ ar_live' = {}
  /\ IF n = 0
       THEN /\ r = "ok"
            /\ ArDone("invalid_argument", "count", 0)
            /\ ar_block' = FALSE
            /\ ar_bytes' = 0
       ELSE IF check_mul(n, sz)
       THEN /\ r = "ok"
            /\ ArDone("integer_overflow", "size", 0)
            /\ ar_block' = FALSE
            /\ ar_bytes' = 0
       ELSE IF r # "ok"
       THEN /\ ArDone(r, "allocate", 0)
            /\ ar_block' = FALSE
            /\ ar_bytes' = n * sz
       ELSE /\ ar_pc' = "loop"
            /\ ar_block' = TRUE
            /\ ar_bytes' = n * sz
            /\ UNCHANGED <<ar_result, ar_fault>>

\* a rollback that stops one element short
RollbackCount_short(initialized) ==
  IF initialized = 0 THEN 0 ELSE initialized - 1

\* `for (size_t i = 0; i < initialized; ++i) elements[i].~T();`
RollbackCount(initialized) == initialized

\* destructor calls of the rollback
RollbackDtors(trivial, initialized) ==
  IF trivial THEN 0 ELSE RollbackCount(initialized)

\* what is left after the rollback and the deallocation: an object of a
\* trivially destructible type ends with its storage
AfterRollback(live, trivial, initialized) ==
  IF trivial THEN {}
  ELSE live \ {i \in live : i < RollbackCount(initialized)}

\* one iteration: try_construct on elements[initialized] through the hook;
\* r: what the hook returns
ar_construct(r) ==
  /\ ar_pc = "loop"
  /\ ar_initialized < ar_count
  /\ IF r = "ok"
       THEN /\ ar_live' = ar_live \cup {ar_initialized}
            /\ ar_initialized' = ar_initialized + 1
            /\ ar_stats' = [ar_stats EXCEPT
                 !.shells = @ + ShellCtors("try_construct"),
                 !.completed = @ + 1]
            /\ IF ar_initialized + 1 = ar_count
                 THEN ArDone("ok", "none", 0)
                 ELSE UNCHANGED <<ar_pc, ar_result, ar_fault>>
            /\ UNCHANGED ar_block
       ELSE /\ ar_live' = AfterRollback(ar_live, ar_trivial, ar_initialized)
            /\ ar_stats' = [ar_stats EXCEPT
                 !.shells = @ + ShellCtors("try_construct"),
                 !.shell_dtors = @ + ShellDtors("try_construct", r),
                 !.rollback_dtors = RollbackDtors(ar_trivial, ar_initialized)]
            /\ ar_block' = FALSE
            /\ ArDone(r, "hook", ar_initialized)
            /\ UNCHANGED ar_initialized
  /\ UNCHANGED <<ar_count, ar_trivial, ar_bytes>>

\* the caller drops the result: ~fallible_array_ptr destroys the elements
\* and returns the block
ar_release ==
  /\ ar_pc = "done"
  /\ ar_pc' = "idle"
  /\ ar_count' = 0
  /\ ar_trivial' = FALSE
  /\ ar_block' = FALSE
  /\ ar_bytes' = 0
  /\ ar_initialized' = 0
  /\ ar_live' = IF ar_result = "ok" THEN {} ELSE ar_live
  /\ ar_stats' = NoStats
  /\ ar_result' = "none"
  /\ ar_fault' = [step |-> "none", err |-> "none", k |-> 0]

NextArrays ==
  \/ /\ \E n \in 0..MaxCount, sz \in Sizes, trivial \in BOOLEAN,
            r \in {"ok"} \cup AllocErrors :
          ar_allocate(n, sz, trivial, r)
     /\ UNCHANGED exceptArrays
  \/ /\ \E r \in {"ok"} \cup HelperErrors : ar_construct(r)
     /\ UNCHANGED exceptArrays
  \/ ar_release /\ UNCHANGED exceptArrays

(***************************************************************************)
(* basic_string operations.  A block that the allocator hands out or grows *)
(* holds indeterminate bytes: every new byte takes the value fill, chosen  *)
(* freely among the byte values.                                           *)
(***************************************************************************)
\* the bytes data_ points at
SBlock(s) ==
  IF st_data[s] = EmptyChar THEN <<empty_char>> ELSE st_heap[st_data[s]]

\* the characters of the string, and the byte at index length()
StrChars(s) == SubSeq(SBlock(s), 1, st_size[s])
Terminator(s) == SBlock(s)[st_size[s] + 1]

\* a block of n bytes that keeps the bytes of cells it has room for
Grown(cells, n, fill) ==
  [i \in 1..n |-> IF i <= Len(cells) THEN cells[i] ELSE fill]

StrHasFree(heap) == \E a \in StrAddrs : heap[a] = <<>>

StrFresh(heap) ==
  CHOOSE a \in StrAddrs :
    heap[a] = <<>> /\ \A b \in StrAddrs : heap[b] = <<>> => a <= b

StrOut(ok, d, c, heap) == [ok |-> ok, data |-> d, cap |-> c, heap |-> heap]

StrMax(a, b) == IF a >= b THEN a ELSE b
StrMin(a, b) == IF a <= b THEN a ELSE b

\* try_reserve(new_cap): nothing to do, or expand_in_place succeeds, or
\* reallocate moves the cap_ + 1 bytes (from nullptr when cap_ == 0), or
\* reallocate fails
StrReserveOuts(s, new_cap) ==
  LET d == st_data[s]
      c == st_cap[s]
      need == new_cap + 1
  IN IF new_cap <= c THEN {StrOut(TRUE, d, c, st_heap)}
     ELSE (IF c > 0
             THEN {StrOut(TRUE, d, new_cap,
                          [st_heap EXCEPT ![d] = Grown(@, need, f)]) :
                     f \in Bytes}
             ELSE {})
          \cup
          (IF StrHasFree(st_heap)
             THEN LET a == StrFresh(st_heap)
                      old == IF c = 0 THEN <<>> ELSE st_heap[d]
                      rest == IF c = 0 THEN st_heap
                              ELSE [st_heap EXCEPT ![d] = <<>>]
                  IN {StrOut(TRUE, a, new_cap,
                             [rest EXCEPT ![a] = Grown(old, need, f)]) :
                        f \in Bytes}
             ELSE {})
          \cup {StrOut(FALSE, d, c, st_heap)}

\* the block data_ points at after a reservation
OutBlock(out) ==
  IF out.data = EmptyChar THEN <<empty_char>> ELSE out.heap[out.data]

\* data_[i] = b
Poke(cells, i, b) == [cells EXCEPT ![i + 1] = b]

\* std::memcpy(data_ + at, sv.data(), sv.size())
StrMemcpy(cells, at, sv) ==
  [i \in 1..Len(cells) |->
     IF at < i /\ i <= at + Len(sv) THEN sv[i - at] ELSE cells[i]]

\* copy at the end, then data_[size_] = 0
AppendCells(cells, size, sv) ==
  Poke(StrMemcpy(cells, size, sv), size + Len(sv), 0)

\* memmove the tail right, memcpy into the gap, then data_[size_] = 0
InsertCells(cells, size, pos, sv) ==
  [i \in 1..Len(cells) |->
     IF i <= pos THEN cells[i]
     ELSE IF i <= pos + Len(sv) THEN sv[i - pos]
     ELSE IF i <= size + Len(sv) THEN cells[i - Len(sv)]
     ELSE IF i = size + Len(sv) + 1 THEN 0
     ELSE cells[i]]

\* memmove the tail left, then data_[size_] = 0
EraseCells(cells, size, pos, n) ==
  [i \in 1..Len(cells) |->
     IF i <= pos THEN cells[i]
     ELSE IF i <= size - n THEN cells[i + n]
     ELSE IF i = size - n + 1 THEN 0
     ELSE cells[i]]

\* memset(data_ + size_, ch, count - size_), then data_[size_] = 0
ResizeCells(cells, size, n, ch) ==
  [i \in 1..Len(cells) |->
     IF size < i /\ i <= n THEN ch
     ELSE IF i = n + 1 THEN 0
     ELSE cells[i]]

StrCall(o, s, res) ==
  [op |-> o, s |-> s, res |-> res, old_data |-> st_data[s],
   old_size |-> st_size[s], old_cap |-> st_cap[s], old_block |-> SBlock(s),
   old_chars |-> StrChars(s)]

StrIdle(s) == st_alive[s] /\ st_last = NoStrCall

\* the fields and the bytes of string s after a call
StrStore(s, d, c, n, cells, heap) ==
  /\ st_data' = [st_data EXCEPT ![s] = d]
  /\ st_cap' = [st_cap EXCEPT ![s] = c]
  /\ st_size' = [st_size EXCEPT ![s] = n]
  /\ st_heap' = IF d = EmptyChar THEN heap ELSE [heap EXCEPT ![d] = cells]
  /\ empty_char' = IF d = EmptyChar THEN cells[1] ELSE empty_char

StrKeep(s) ==
  UNCHANGED <<st_data, st_cap, st_size, st_heap, empty_char>>

\* a failed reservation: what reallocate left
StrFailed(s, o, out) ==
  /\ StrStore(s, out.data, out.cap, st_size[s], OutBlock(out), out.heap)
  /\ st_last' = StrCall(o, s, "allocation_failed")

\* basic_string()
st_ctor(s) ==
  /\ ~st_alive[s]
  /\ st_last = NoStrCall
  /\ st_alive' = [st_alive EXCEPT ![s] = TRUE]
  /\ StrStore(s, EmptyChar, 0, 0, <<empty_char>>, st_heap)
  /\ st_last' = StrCall("ctor", s, "ok")

\* basic_string(basic_string &&other)
st_move_ctor(d, s) ==
  /\ StrIdle(s)
  /\ ~st_alive[d]
  /\ st_alive' = [st_alive EXCEPT ![d] = TRUE]
  /\ st_data' = [st_data EXCEPT ![d] = st_data[s], ![s] = EmptyChar]
  /\ st_size' = [st_size EXCEPT ![d] = st_size[s], ![s] = 0]
  /\ st_cap' = [st_cap EXCEPT ![d] = st_cap[s], ![s] = 0]
  /\ st_last' = StrCall("move_ctor", s, "ok")
  /\ UNCHANGED <<st_heap, empty_char>>

\* ~basic_string()
st_dtor(s) ==
  /\ StrIdle(s)
  /\ st_alive' = [st_alive EXCEPT ![s] = FALSE]
  /\ st_heap' = IF st_cap[s] > 0 /\ st_data[s] # EmptyChar
                  THEN [st_heap EXCEPT ![st_data[s]] = <<>>]
                  ELSE st_heap
  /\ st_data' = [st_data EXCEPT ![s] = EmptyChar]
  /\ st_size' = [st_size EXCEPT ![s] = 0]
  /\ st_cap' = [st_cap EXCEPT ![s] = 0]
  /\ st_last' = NoStrCall
  /\ UNCHANGED empty_char

\* try_reserve(new_cap)
st_try_reserve(s, new_cap) ==
  /\ StrIdle(s)
  /\ \E out \in StrReserveOuts(s, new_cap) :
       /\ StrStore(s, out.data, out.cap, st_size[s], OutBlock(out), out.heap)
       /\ st_last' = StrCall("try_reserve", s,
                             IF out.ok THEN "ok" ELSE "allocation_failed")
  /\ UNCHANGED st_alive

\* the capacity try_append and try_append_fmt reserve for new_size
AppendGrowth(c, new_size) ==
  IF new_size > c THEN StrMax(c * 2, new_size) ELSE c

\* try_append(std::string_view sv)
st_try_append(s, sv) ==
  /\ StrIdle(s)
  /\ IF sv = <<>>
       THEN /\ StrKeep(s)
            /\ st_last' = StrCall("try_append", s, "ok")
       ELSE LET new_size == st_size[s] + Len(sv)
                growth == AppendGrowth(st_cap[s], new_size)
            IN /\ growth <= MaxStrCap
               /\ \E out \in StrReserveOuts(s, growth) :
                    IF out.ok
                      THEN /\ StrStore(s, out.data, out.cap, new_size,
                                       AppendCells(OutBlock(out), st_size[s],
                                                   sv), out.heap)
                           /\ st_last' = StrCall("try_append", s, "ok")
                      ELSE StrFailed(s, "try_append", out)
  /\ UNCHANGED st_alive

\* try_append_fmt(format, ...): sv is the formatted text, formats is FALSE
\* when vsnprintf reports an error
st_try_append_fmt(s, formats, sv) ==
  /\ StrIdle(s)
  /\ IF ~formats
       THEN /\ sv = <<>>
            /\ StrKeep(s)
            /\ st_last' = StrCall("try_append_fmt", s,
                                  "unsupported_operation")
       ELSE LET new_size == st_size[s] + Len(sv)
                growth == AppendGrowth(st_cap[s], new_size)
            IN /\ growth <= MaxStrCap
               /\ \E out \in StrReserveOuts(s, growth) :
                    IF out.ok
                      THEN /\ StrStore(s, out.data, out.cap, new_size,
                                       AppendCells(OutBlock(out), st_size[s],
                                                   sv), out.heap)
                           /\ st_last' = StrCall("try_append_fmt", s, "ok")
                      ELSE StrFailed(s, "try_append_fmt", out)
  /\ UNCHANGED st_alive

\* pop_back() (the caller guarantees size_ > 0) and try_pop_back()
st_pop_back(s, fallible) ==
  /\ StrIdle(s)
  /\ fallible \/ st_size[s] > 0
  /\ IF st_size[s] = 0
       THEN /\ StrKeep(s)
            /\ st_last' = StrCall("try_pop_back", s, "out_of_range")
       ELSE /\ StrStore(s, st_data[s], st_cap[s], st_size[s] - 1,
                        Poke(SBlock(s), st_size[s] - 1, 0), st_heap)
            /\ st_last' = StrCall(IF fallible THEN "try_pop_back"
                                  ELSE "pop_back", s, "ok")
  /\ UNCHANGED st_alive

\* try_resize(count, ch)
st_try_resize(s, n, ch) ==
  /\ StrIdle(s)
  /\ IF n <= st_size[s]
       THEN /\ StrStore(s, st_data[s], st_cap[s], n,
                        IF st_cap[s] > 0 THEN Poke(SBlock(s), n, 0)
                        ELSE SBlock(s), st_heap)
            /\ st_last' = StrCall("try_resize", s, "ok")
       ELSE \E out \in StrReserveOuts(s, n) :
              IF out.ok
                THEN /\ StrStore(s, out.data, out.cap, n,
                                 ResizeCells(OutBlock(out), st_size[s], n, ch),
                                 out.heap)
                     /\ st_last' = StrCall("try_resize", s, "ok")
                ELSE StrFailed(s, "try_resize", out)
  /\ UNCHANGED st_alive

\* try_insert(pos, sv)
st_try_insert(s, pos, sv) ==
  /\ StrIdle(s)
  /\ IF pos > st_size[s]
       THEN /\ StrKeep(s)
            /\ st_last' = StrCall("try_insert", s, "out_of_range")
       ELSE IF sv = <<>>
       THEN /\ StrKeep(s)
            /\ st_last' = StrCall("try_insert", s, "ok")
       ELSE /\ st_size[s] + Len(sv) <= MaxStrCap
            /\ \E out \in StrReserveOuts(s, st_size[s] + Len(sv)) :
                 IF out.ok
                   THEN /\ StrStore(s, out.data, out.cap,
                                    st_size[s] + Len(sv),
                                    InsertCells(OutBlock(out), st_size[s],
                                                pos, sv), out.heap)
                        /\ st_last' = StrCall("try_insert", s, "ok")
                   ELSE StrFailed(s, "try_insert", out)
  /\ UNCHANGED st_alive

\* erase(pos, count) (the caller guarantees pos <= size_) and
\* try_erase(pos, count)
st_erase(s, fallible, pos, n) ==
  /\ StrIdle(s)
  /\ fallible \/ pos <= st_size[s]
  /\ LET o == IF fallible THEN "try_erase" ELSE "erase" IN
     IF pos > st_size[s]
       THEN /\ StrKeep(s)
            /\ st_last' = StrCall(o, s, "out_of_range")
       ELSE LET actual_count == StrMin(n, st_size[s] - pos) IN
            IF actual_count = 0
              THEN /\ StrKeep(s)
                   /\ st_last' = StrCall(o, s, "ok")
              ELSE /\ StrStore(s, st_data[s], st_cap[s],
                               st_size[s] - actual_count,
                               EraseCells(SBlock(s), st_size[s], pos,
                                          actual_count), st_heap)
                   /\ st_last' = StrCall(o, s, "ok")
  /\ UNCHANGED st_alive

\* a failed assignment that has already taken the new length
AssignFailedSize_taken(size, sv) == Len(sv)

\* try_assign returns before it writes any field when allocate fails
AssignFailedSize(size, sv) == size

\* try_assign(sv); allocated: whether alloc_->allocate succeeds
st_try_assign(s, sv, allocated) ==
  /\ StrIdle(s)
  /\ IF Len(sv) <= st_cap[s]
       THEN /\ allocated
            /\ StrStore(s, st_data[s], st_cap[s], Len(sv),
                        Poke(StrMemcpy(SBlock(s), 0, sv), Len(sv), 0),
                        st_heap)
            /\ st_last' = StrCall("try_assign", s, "ok")
       ELSE IF ~allocated
       THEN /\ StrStore(s, st_data[s], st_cap[s],
                        AssignFailedSize(st_size[s], sv), SBlock(s), st_heap)
            /\ st_last' = StrCall("try_assign", s, "allocation_failed")
       ELSE /\ StrHasFree(st_heap)
            /\ \E f \in Bytes :
                 LET a == StrFresh(st_heap)
                     rest == IF st_cap[s] > 0 /\ st_data[s] # EmptyChar
                               THEN [st_heap EXCEPT ![st_data[s]] = <<>>]
                               ELSE st_heap
                 IN StrStore(s, a, Len(sv), Len(sv),
                             Poke(StrMemcpy(Grown(<<>>, Len(sv) + 1, f), 0,
                                            sv), Len(sv), 0), rest)
            /\ st_last' = StrCall("try_assign", s, "ok")
  /\ UNCHANGED st_alive

\* clear()
st_clear(s) ==
  /\ StrIdle(s)
  /\ StrStore(s, st_data[s], st_cap[s], 0,
              IF st_cap[s] > 0 THEN Poke(SBlock(s), 0, 0) ELSE SBlock(s),
              st_heap)
  /\ st_last' = StrCall("clear", s, "ok")
  /\ UNCHANGED st_alive

\* shrink_to_fit(); moved: reallocate returns another address
st_shrink_to_fit(s, reallocated, moved) ==
  /\ StrIdle(s)
  /\ IF st_cap[s] <= st_size[s]
       THEN /\ reallocated /\ ~moved
            /\ StrKeep(s)
            /\ st_last' = StrCall("shrink_to_fit", s, "ok")
       ELSE IF ~reallocated
       THEN /\ ~moved
            /\ StrKeep(s)
            /\ st_last' = StrCall("shrink_to_fit", s, "allocation_failed")
       ELSE LET cells == SubSeq(SBlock(s), 1, st_size[s] + 1) IN
            /\ moved => StrHasFree(st_heap)
            /\ StrStore(s, IF moved THEN StrFresh(st_heap) ELSE st_data[s],
                        st_size[s], st_size[s], cells,
                        IF moved THEN [st_heap EXCEPT ![st_data[s]] = <<>>]
                        ELSE st_heap)
            /\ st_last' = StrCall("shrink_to_fit", s, "ok")
  /\ UNCHANGED st_alive

\* the caller has looked at the result
st_return ==
  /\ st_last # NoStrCall
  /\ st_last' = NoStrCall
  /\ UNCHANGED <<st_alive, st_data, st_size, st_cap, st_heap, empty_char>>

NextStrings ==
  \/ (\E s \in Strs : st_ctor(s)) /\ UNCHANGED exceptStrings
  \/ (\E d \in Strs, s \in Strs : st_move_ctor(d, s))
       /\ UNCHANGED exceptStrings
  \/ (\E s \in Strs : st_dtor(s)) /\ UNCHANGED exceptStrings
  \/ (\E s \in Strs, n \in 0..MaxStrCap : st_try_reserve(s, n))
       /\ UNCHANGED exceptStrings
  \/ (\E s \in Strs, sv \in Views : st_try_append(s, sv))
       /\ UNCHANGED exceptStrings
  \/ (\E s \in Strs, formats \in BOOLEAN, sv \in Views :
        st_try_append_fmt(s, formats, sv))
       /\ UNCHANGED exceptStrings
  \/ (\E s \in Strs, fallible \in BOOLEAN : st_pop_back(s, fallible))
       /\ UNCHANGED exceptStrings
  \/ (\E s \in Strs, n \in 0..MaxStrCap, ch \in Bytes :
        st_try_resize(s, n, ch))
       /\ UNCHANGED exceptStrings
  \/ (\E s \in Strs, pos \in 0..MaxStrCap, sv \in Views :
        st_try_insert(s, pos, sv))
       /\ UNCHANGED exceptStrings
  \/ (\E s \in Strs, fallible \in BOOLEAN, pos \in 0..MaxStrCap,
         n \in 0..MaxStrCap : st_erase(s, fallible, pos, n))
       /\ UNCHANGED exceptStrings
  \/ (\E s \in Strs, sv \in Views, allocated \in BOOLEAN :
        st_try_assign(s, sv, allocated))
       /\ UNCHANGED exceptStrings
  \/ (\E s \in Strs : st_clear(s)) /\ UNCHANGED exceptStrings
  \/ (\E s \in Strs, reallocated \in BOOLEAN, moved \in BOOLEAN :
        st_shrink_to_fit(s, reallocated, moved))
       /\ UNCHANGED exceptStrings
  \/ st_return /\ UNCHANGED exceptStrings

NextVector ==
  \E v \in Vecs :
    \/ /\ \E n \in 0..MaxCap, out \in ReserveOuts :
             try_reserve(v, n, out, MaxCap)
       /\ UNCHANGED <<spVars, restVars>>
    \/ /\ \E val \in Values, out \in ReserveOuts :
             try_push_back(v, val, out, MaxCap)
       /\ UNCHANGED <<spVars, restVars>>
    \/ /\ \E val \in Values, out \in ReserveOuts, created \in BOOLEAN :
             try_emplace_back(v, val, out, created, MaxCap)
       /\ UNCHANGED <<spVars, restVars>>
    \/ try_pop_back(v) /\ UNCHANGED <<spVars, restVars>>
    \/ (\E elem_size \in ElemSizes : clear(v, elem_size))
         /\ UNCHANGED <<spVars, restVars>>
    \/ /\ \E pos \in 0..MaxCap : try_erase(v, pos)
       /\ UNCHANGED <<spVars, restVars>>
    \/ /\ \E pos \in 0..MaxCap, val \in Values, out \in ReserveOuts :
             try_insert(v, pos, val, out, MaxCap)
       /\ UNCHANGED <<spVars, restVars>>
    \/ /\ \E s \in Vecs : move_ctor(v, s)
       /\ UNCHANGED <<spVars, restVars>>
    \/ dtor(v) /\ UNCHANGED <<spVars, restVars>>
    \/ ctor(v) /\ UNCHANGED <<spVars, restVars>>
    \/ vector_return /\ UNCHANGED <<spVars, restVars>>

(***************************************************************************)
(* The steps of atomic_fallible_singleton::instance(external_lock).        *)
(***************************************************************************)
\* errors T::try_init returns
SgErrors == {"allocation_failed"}

\* m_storage.get(): RELOCO_ASSERT(m_initialized), then &m_storage
SgGet ==
  IF m_initialized THEN [ok |-> TRUE, ptr |-> SgStorage, err |-> "none"]
  ELSE [ok |-> FALSE, ptr |-> Null, err |-> "assert"]

\* a fast path that is never taken
FastPath_never(state) == FALSE

\* `if (m_state.load(std::memory_order_acquire) == READY)`
FastPath(state) == state = READY

\* `if (m_state.load(std::memory_order_relaxed) == UNINITIALIZED)`
NeedsInit(state) == state = UNINITIALIZED

\* a lock that lets every caller in
LockFree_any(owner) == TRUE

\* Traits::lock returns once no thread holds external_lock
LockFree(owner) == owner = Null

SgStep(t, from, to) ==
  /\ sg_pc[t] = from
  /\ sg_pc' = [sg_pc EXCEPT ![t] = to]

\* a thread calls instance()
sg_enter(t) ==
  /\ sg_calls[t] < NSgCalls
  /\ SgStep(t, "idle", "load")
  /\ sg_calls' = [sg_calls EXCEPT ![t] = @ + 1]
  /\ sg_res' = [sg_res EXCEPT ![t] = SgNoRes]
  /\ sg_locked' = [sg_locked EXCEPT ![t] = FALSE]
  /\ sg_ready_at_call' = [sg_ready_at_call EXCEPT ![t] = m_state = READY]
  /\ UNCHANGED <<m_state, m_initialized, sg_owner, constructor_calls,
                 init_calls, sg_failures>>

\* the acquire load: READY returns m_storage.get() at once
sg_load(t) ==
  /\ sg_pc[t] = "load"
  /\ IF FastPath(m_state)
       THEN /\ sg_res' = [sg_res EXCEPT ![t] = SgGet]
            /\ sg_pc' = [sg_pc EXCEPT ![t] = "ret"]
       ELSE /\ sg_pc' = [sg_pc EXCEPT ![t] = "lock"]
            /\ UNCHANGED sg_res
  /\ UNCHANGED <<m_state, m_initialized, sg_owner, sg_calls, sg_locked,
                 sg_ready_at_call, constructor_calls, init_calls,
                 sg_failures>>

\* Traits::lock(external_lock) is called
sg_lock(t) ==
  /\ SgStep(t, "lock", "wait")
  /\ sg_locked' = [sg_locked EXCEPT ![t] = TRUE]
  /\ UNCHANGED <<m_state, m_initialized, sg_owner, sg_res, sg_calls,
                 sg_ready_at_call, constructor_calls, init_calls,
                 sg_failures>>

\* Traits::lock(external_lock) returns
sg_acquire(t) ==
  /\ SgStep(t, "wait", "check")
  /\ LockFree(sg_owner)
  /\ sg_owner' = t
  /\ UNCHANGED <<m_state, m_initialized, sg_res, sg_calls, sg_locked,
                 sg_ready_at_call, constructor_calls, init_calls,
                 sg_failures>>

\* the relaxed load under the lock
sg_check(t) ==
  /\ sg_pc[t] = "check"
  /\ IF NeedsInit(m_state)
       THEN /\ sg_pc' = [sg_pc EXCEPT ![t] = "construct"]
            /\ UNCHANGED sg_res
       ELSE /\ sg_res' = [sg_res EXCEPT ![t] = SgGet]
            /\ sg_pc' = [sg_pc EXCEPT ![t] = "unlock"]
  /\ UNCHANGED <<m_state, m_initialized, sg_owner, sg_calls, sg_locked,
                 sg_ready_at_call, constructor_calls, init_calls,
                 sg_failures>>

\* m_storage.try_init(), first half: `if (m_initialized) return {};` then
\* the placement new of T
sg_construct(t) ==
  /\ sg_pc[t] = "construct"
  /\ IF m_initialized
       THEN /\ sg_pc' = [sg_pc EXCEPT ![t] = "store"]
            /\ UNCHANGED constructor_calls
       ELSE /\ sg_pc' = [sg_pc EXCEPT ![t] = "init"]
            /\ constructor_calls' = constructor_calls + 1
  /\ UNCHANGED <<m_state, m_initialized, sg_owner, sg_res, sg_calls,
                 sg_locked, sg_ready_at_call, init_calls, sg_failures>>

\* m_storage.try_init(), second half: obj->try_init(key) returns r; an error
\* destroys the object and becomes the call's result
sg_init(t, r) ==
  /\ sg_pc[t] = "init"
  /\ init_calls' = init_calls + 1
  /\ IF r = "ok"
       THEN /\ m_initialized' = TRUE
            /\ sg_pc' = [sg_pc EXCEPT ![t] = "store"]
            /\ UNCHANGED <<sg_res, sg_failures>>
       ELSE /\ sg_res' = [sg_res EXCEPT
                            ![t] = [ok |-> FALSE, ptr |-> Null, err |-> r]]
            /\ sg_failures' = sg_failures + 1
            /\ sg_pc' = [sg_pc EXCEPT ![t] = "unlock"]
            /\ UNCHANGED m_initialized
  /\ UNCHANGED <<m_state, sg_owner, sg_calls, sg_locked, sg_ready_at_call,
                 constructor_calls>>

\* `m_state.store(READY, std::memory_order_release); res = m_storage.get();`
sg_store(t) ==
  /\ SgStep(t, "store", "unlock")
  /\ m_state' = READY
  /\ sg_res' = [sg_res EXCEPT ![t] = SgGet]
  /\ UNCHANGED <<m_initialized, sg_owner, sg_calls, sg_locked,
                 sg_ready_at_call, constructor_calls, init_calls,
                 sg_failures>>

\* Traits::unlock(external_lock)
sg_unlock(t) ==
  /\ SgStep(t, "unlock", "ret")
  /\ sg_owner' = Null
  /\ UNCHANGED <<m_state, m_initialized, sg_res, sg_calls, sg_locked,
                 sg_ready_at_call, constructor_calls, init_calls,
                 sg_failures>>

\* the caller has the result of its call
sg_return(t) ==
  /\ SgStep(t, "ret", "idle")
  /\ UNCHANGED <<m_state, m_initialized, sg_owner, sg_res, sg_calls,
                 sg_locked, sg_ready_at_call, constructor_calls, init_calls,
                 sg_failures>>

NextSingleton ==
  \E t \in SgThreads :
    \/ sg_enter(t) /\ UNCHANGED exceptSingleton
    \/ sg_load(t) /\ UNCHANGED exceptSingleton
    \/ sg_lock(t) /\ UNCHANGED exceptSingleton
    \/ sg_acquire(t) /\ UNCHANGED exceptSingleton
    \/ sg_check(t) /\ UNCHANGED exceptSingleton
    \/ sg_construct(t) /\ UNCHANGED exceptSingleton
    \/ (\E r \in {"ok"} \cup SgErrors : sg_init(t, r))
         /\ UNCHANGED exceptSingleton
    \/ sg_store(t) /\ UNCHANGED exceptSingleton
    \/ sg_unlock(t) /\ UNCHANGED exceptSingleton
    \/ sg_return(t) /\ UNCHANGED exceptSingleton

(***************************************************************************)
(* The operations of stack_allocator.                                      *)
(***************************************************************************)
\* an alignment step that leaves the address as it is
AlignUp_none(p, a) == p

\* the first address >= p that is a multiple of a
AlignUp(p, a) == ((p + a - 1) \div a) * a

\* std::align(alignment, size, ptr, space): the aligned address, or Null
\* when size bytes at that address do not fit in the space bytes from ptr
std_align(alignment, size, ptr, space) ==
  IF space < size THEN Null
  ELSE IF AlignUp(ptr, alignment) - ptr > space - size THEN Null
  ELSE AlignUp(ptr, alignment)

SaCall(o, ptr, bytes, alignment, res) ==
  [op |-> o, ptr |-> ptr, bytes |-> bytes, alignment |-> alignment,
   res |-> res, old_offset |-> offset_]

\* stack_allocator(ptr, size)
sa_ctor(ptr, size) ==
  /\ ~sa_alive
  /\ sa_alive' = TRUE
  /\ buffer_' = ptr
  /\ capacity_' = size
  /\ offset_' = 0
  /\ sa_blocks' = <<>>
  /\ sa_last' = NoSaCall

\* allocate(bytes, alignment)
sa_allocate(bytes, alignment) ==
  /\ sa_alive
  /\ Len(sa_blocks) < SaMaxBlocks
  /\ LET current_ptr == buffer_ + offset_
         space == capacity_ - offset_
         aligned_ptr == std_align(alignment, bytes, current_ptr, space)
     IN IF aligned_ptr = Null
          THEN /\ sa_last' = SaCall("allocate", Null, bytes, alignment,
                                    "allocation_failed")
               /\ UNCHANGED <<offset_, sa_blocks>>
          ELSE /\ offset_' = aligned_ptr + bytes - buffer_
               /\ sa_blocks' = Append(sa_blocks,
                                 [ptr |-> aligned_ptr, size |-> bytes,
                                  alignment |-> alignment])
               /\ sa_last' = SaCall("allocate", aligned_ptr, bytes,
                                    alignment, "ok")
  /\ UNCHANGED <<sa_alive, buffer_, capacity_>>

\* a test that takes every block for the one at the bump pointer
EndsAtOffset_any(ptr, old_size) == TRUE

\* `static_cast<std::byte *>(ptr) + old_size == buffer_ + offset_`
EndsAtOffset(ptr, old_size) == ptr + old_size = buffer_ + offset_

\* expand_in_place(ptr, old_size, new_size) on block i, which the caller
\* holds with its current size
sa_expand_in_place(i, new_size) ==
  /\ sa_alive
  /\ i \in 1..Len(sa_blocks)
  /\ LET ptr == sa_blocks[i].ptr
         old_size == sa_blocks[i].size
         added == (new_size - old_size) % SaSizeMod
         rec == SaCall("expand_in_place", ptr, new_size, 0, "ok") @@
                  [idx |-> i, old_size |-> old_size]
     IN IF /\ EndsAtOffset(ptr, old_size)
           /\ (offset_ + added) % SaSizeMod <= capacity_
          THEN /\ offset_' = (offset_ + added) % SaSizeMod
               /\ sa_blocks' = [sa_blocks EXCEPT ![i].size = new_size]
               /\ sa_last' = rec
          ELSE /\ sa_last' = [rec EXCEPT !.res = "in_place_growth_failed"]
               /\ UNCHANGED <<offset_, sa_blocks>>
  /\ UNCHANGED <<sa_alive, buffer_, capacity_>>

\* reallocate: always allocation_failed
sa_reallocate(i, new_size) ==
  /\ sa_alive
  /\ i \in 1..Len(sa_blocks)
  /\ sa_last' = [op |-> "reallocate", res |-> "allocation_failed"]
  /\ UNCHANGED <<sa_alive, buffer_, capacity_, offset_, sa_blocks>>

\* deallocate: `{}`; the caller gives the block up
sa_deallocate(i) ==
  /\ sa_alive
  /\ i \in 1..Len(sa_blocks)
  /\ sa_last' = [op |-> "deallocate", res |-> "ok"]
  /\ UNCHANGED <<sa_alive, buffer_, capacity_, offset_, sa_blocks>>

\* reset(): `offset_ = 0`; every block handed out so far is void
sa_reset ==
  /\ sa_alive
  /\ offset_' = 0
  /\ sa_blocks' = <<>>
  /\ sa_last' = [op |-> "reset", res |-> "ok"]
  /\ UNCHANGED <<sa_alive, buffer_, capacity_>>

NextStack ==
  \/ (\E ptr \in SaBases, size \in SaCapacities : sa_ctor(ptr, size))
       /\ UNCHANGED exceptStack
  \/ (\E bytes \in 0..SaMaxBytes, alignment \in SaAlignments :
        sa_allocate(bytes, alignment))
       /\ UNCHANGED exceptStack
  \/ (\E i \in 1..SaMaxBlocks, new_size \in 0..SaMaxBytes :
        sa_expand_in_place(i, new_size))
       /\ UNCHANGED exceptStack
  \/ (\E i \in 1..SaMaxBlocks, new_size \in 0..SaMaxBytes :
        sa_reallocate(i, new_size))
       /\ UNCHANGED exceptStack
  \/ (\E i \in 1..SaMaxBlocks : sa_deallocate(i)) /\ UNCHANGED exceptStack
  \/ sa_reset /\ UNCHANGED exceptStack

(***************************************************************************)
(* fallible_constructed, fallible_allocated, static_fallible_constructed   *)
(* and fallible_singleton: one wrapper of each, used by one thread.        *)
(***************************************************************************)
\* a wrapper that never sees itself initialised
IsInitialized_never(flag) == FALSE

\* `if (m_initialized)` / `if (m_ptr)` / `if (!m_internal_storage)`
IsInitialized(flag) == flag

\* &m_storage of an in-place wrapper
StorageOf(w) == LzMaxAddr + 1

\* the flag the wrapper tests
LzFlag(w) == IF w \in InPlace THEN lz_initialized[w] ELSE m_ptr # Null

\* where the wrapper's object lives
LzPointer(w) == IF w \in InPlace THEN StorageOf(w) ELSE m_ptr

LzCall(o, w, res, ptr, ctors, dtors, allocs, deallocs) ==
  [op |-> o, w |-> w, res |-> res, ptr |-> ptr, was |-> LzFlag(w),
   before |-> LzPointer(w), ctors |-> ctors, dtors |-> dtors,
   allocs |-> allocs, deallocs |-> deallocs]

\* try_init() of fallible_constructed and static_fallible_constructed, and
\* the try_init() that fallible_singleton::instance() runs; r: T::try_init
init_in_place(o, w, r) ==
  /\ w \in InPlace
  /\ lz_alive[w]
  /\ lz_initialized[w] \/ lz_ctor_calls[w] < LzMaxCtors
  /\ IF IsInitialized(lz_initialized[w])
       THEN /\ lz_last' = LzCall(o, w, "ok", StorageOf(w), 0, 0, 0, 0)
            /\ UNCHANGED <<lz_initialized, lz_ctor_calls, lz_dtor_calls>>
       ELSE /\ lz_ctor_calls' = [lz_ctor_calls EXCEPT ![w] = @ + 1]
            /\ IF r = "ok"
                 THEN /\ lz_initialized' =
                           [lz_initialized EXCEPT ![w] = TRUE]
                      /\ lz_last' =
                           LzCall(o, w, "ok", StorageOf(w), 1, 0, 0, 0)
                      /\ UNCHANGED lz_dtor_calls
                 ELSE /\ lz_dtor_calls' =
                           [lz_dtor_calls EXCEPT ![w] = @ + 1]
                      /\ lz_last' = LzCall(o, w, r, Null, 1, 1, 0, 0)
                      /\ UNCHANGED lz_initialized
  /\ UNCHANGED <<lz_alive, m_ptr, lz_blocks>>

\* fallible_allocated::try_init(); a: the block allocate returns, or Null
init_allocated(a, r) ==
  LET w == "fallible_allocated" IN
  /\ lz_alive[w]
  /\ m_ptr # Null \/ lz_ctor_calls[w] < LzMaxCtors
  /\ a \in (LzAddrs \ lz_blocks) \cup {Null}
  /\ IF IsInitialized(m_ptr # Null)
       THEN /\ lz_last' = LzCall("try_init", w, "ok", m_ptr, 0, 0, 0, 0)
            /\ UNCHANGED <<m_ptr, lz_blocks, lz_ctor_calls, lz_dtor_calls>>
       ELSE IF a = Null
         THEN /\ lz_last' = LzCall("try_init", w, "allocation_failed",
                                   Null, 0, 0, 0, 0)
              /\ UNCHANGED <<m_ptr, lz_blocks, lz_ctor_calls,
                             lz_dtor_calls>>
         ELSE /\ lz_ctor_calls' = [lz_ctor_calls EXCEPT ![w] = @ + 1]
              /\ IF r = "ok"
                   THEN /\ m_ptr' = a
                        /\ lz_blocks' = lz_blocks \cup {a}
                        /\ lz_last' =
                             LzCall("try_init", w, "ok", a, 1, 0, 1, 0)
                        /\ UNCHANGED lz_dtor_calls
                   ELSE /\ lz_dtor_calls' =
                             [lz_dtor_calls EXCEPT ![w] = @ + 1]
                        /\ m_ptr' = Null
                        /\ lz_last' =
                             LzCall("try_init", w, r, Null, 1, 1, 1, 1)
                        /\ UNCHANGED lz_blocks
  /\ UNCHANGED <<lz_alive, lz_initialized>>

lz_try_init(w, a, r) ==
  /\ w \in Direct
  /\ IF w \in InPlace THEN init_in_place("try_init", w, r)
                      ELSE init_allocated(a, r)

\* fallible_singleton::instance()
instance(r) == init_in_place("instance", "fallible_singleton", r)

\* try_get() of the three wrappers that have one
lz_try_get(w) ==
  /\ w \in Direct
  /\ lz_alive[w]
  /\ lz_last' = IF IsInitialized(LzFlag(w))
                  THEN LzCall("try_get", w, "ok", LzPointer(w), 0, 0, 0, 0)
                  ELSE LzCall("try_get", w, "not_initialized", Null,
                              0, 0, 0, 0)
  /\ UNCHANGED <<lz_alive, lz_initialized, m_ptr, lz_blocks, lz_ctor_calls,
                 lz_dtor_calls>>

\* ~fallible_constructed() and ~fallible_allocated()
lz_dtor(w) ==
  /\ w \in Scoped
  /\ lz_alive[w]
  /\ lz_alive' = [lz_alive EXCEPT ![w] = FALSE]
  /\ IF IsInitialized(LzFlag(w))
       THEN /\ lz_dtor_calls' = [lz_dtor_calls EXCEPT ![w] = @ + 1]
            /\ lz_blocks' = IF w \in InPlace THEN lz_blocks
                                             ELSE lz_blocks \ {m_ptr}
            /\ lz_last' = LzCall("dtor", w, "ok", Null, 0, 1, 0,
                                 IF w \in InPlace THEN 0 ELSE 1)
       ELSE /\ lz_last' = LzCall("dtor", w, "ok", Null, 0, 0, 0, 0)
            /\ UNCHANGED <<lz_dtor_calls, lz_blocks>>
  /\ UNCHANGED <<lz_initialized, m_ptr, lz_ctor_calls>>

\* the constructors of fallible_constructed and fallible_allocated
lz_ctor(w) ==
  /\ w \in Scoped
  /\ ~lz_alive[w]
  /\ lz_alive' = [lz_alive EXCEPT ![w] = TRUE]
  /\ lz_initialized' = IF w \in InPlace
                         THEN [lz_initialized EXCEPT ![w] = FALSE]
                         ELSE lz_initialized
  /\ m_ptr' = IF w \in InPlace THEN m_ptr ELSE Null
  /\ lz_last' = [op |-> "ctor", w |-> w]
  /\ UNCHANGED <<lz_blocks, lz_ctor_calls, lz_dtor_calls>>

NextLazy ==
  \/ (\E w \in Direct, a \in LzAddrs \cup {Null}, r \in LzResults :
        lz_try_init(w, a, r))
       /\ UNCHANGED exceptLazy
  \/ (\E r \in LzResults : instance(r)) /\ UNCHANGED exceptLazy
  \/ (\E w \in Direct : lz_try_get(w)) /\ UNCHANGED exceptLazy
  \/ (\E w \in Scoped : lz_dtor(w)) /\ UNCHANGED exceptLazy
  \/ (\E w \in Scoped : lz_ctor(w)) /\ UNCHANGED exceptLazy

(***************************************************************************)
(* Duplicates of an object that derives from enable_shared_from_this: the  *)
(* class declares only its default constructor, so the copy constructor of *)
(* the base subobject is the implicit one and copies weak_this_.           *)
(***************************************************************************)
\* T dup(*s): the implicit copy constructor runs weak_ptr(const weak_ptr &)
\* on the weak_this_ of the object that handle s owns
esft_copy_ctor(t, k, s) ==
  /\ Idle(t)
  /\ ~dup_alive[k]
  /\ SFreeR(s)
  /\ sp_block_[s] # Null
  /\ esft[sp_block_[s]]
  /\ dup_alive' = [dup_alive EXCEPT ![k] = TRUE]
  /\ weak_this_' = [weak_this_ EXCEPT ![k] = WeakThis(s)]
  /\ weak_count_' = [weak_count_ EXCEPT
        ![WeakThis(s)] = CopyWeak(weak_count_[WeakThis(s)])]
  /\ uaf' = Touch(WeakThis(s))
  /\ UNCHANGED <<handleVars, shared_count_, cb_state, esft, destroyed, freed,
                 pc, regVars, dup_src>>

\* dup.shared_from_this(): weak_this_.lock(), the result goes to handle d
dup_shared_from_this(t, k, d) ==
  /\ Idle(t)
  /\ dup_alive[k]
  /\ \A u \in Threads : dup_src[u] = k => pc[u] \in {"idle", "ret"}
  /\ SFreeW(d)
  /\ sp_block_[d] = Null
  /\ op' = [op EXCEPT ![t] = "dup_shared_from_this"]
  /\ sdst' = [sdst EXCEPT ![t] = d]
  /\ dup_src' = [dup_src EXCEPT ![t] = k]
  /\ IF weak_this_[k] = Null
       THEN /\ result' = [result EXCEPT ![t] = "empty_pointer"]
            /\ pc' = [pc EXCEPT ![t] = "ret"]
            /\ UNCHANGED cur
       ELSE /\ pc' = [pc EXCEPT ![t] = "lock_load"]
            /\ cur' = [cur EXCEPT ![t] = weak_this_[k]]
            /\ UNCHANGED result
  /\ UNCHANGED <<handleVars, blockVars, uaf, ssrc, wdst, wsrc, ret, count,
                 dup_alive, weak_this_>>

\* the duplicate goes out of scope: ~weak_ptr() on its weak_this_
dup_dtor(t, k) ==
  /\ Idle(t)
  /\ dup_alive[k]
  /\ \A u \in Threads : dup_src[u] = k => pc[u] \in {"idle", "ret"}
  /\ dup_alive' = [dup_alive EXCEPT ![k] = FALSE]
  /\ weak_this_' = [weak_this_ EXCEPT ![k] = Null]
  /\ op' = [op EXCEPT ![t] = "dup_dtor"]
  /\ dup_src' = [dup_src EXCEPT ![t] = k]
  /\ IF weak_this_[k] # Null
       THEN /\ pc' = [pc EXCEPT ![t] = "rw_sub"]
            /\ cur' = [cur EXCEPT ![t] = weak_this_[k]]
       ELSE /\ pc' = [pc EXCEPT ![t] = "fin"]
            /\ UNCHANGED cur
  /\ UNCHANGED <<handleVars, blockVars, uaf, sdst, ssrc, wdst, wsrc, ret,
                 count, result>>

\* the end of the duplicate's destructor
dup_finish(t) ==
  /\ pc[t] = "fin"
  /\ op[t] = "dup_dtor"
  /\ pc' = [pc EXCEPT ![t] = "idle"]
  /\ ClearRegs(t)
  /\ UNCHANGED <<handleVars, blockVars, uaf, result, dupVars>>

NextDups ==
  \E t \in Threads :
    \/ /\ \E d \in SSlots, ok \in BOOLEAN : try_allocate_shared(t, d, TRUE, ok)
       /\ UNCHANGED <<vecVars, restVars>>
    \/ Return(t) /\ UNCHANGED <<vecVars, restVars>>
    \/ /\ \E d \in SSlots : shared_begin(t, "dtor", d, Null)
       /\ UNCHANGED <<vecVars, restVars>>
    \/ release_shared(t) /\ UNCHANGED <<vecVars, restVars>>
    \/ delete_ptr(t) /\ UNCHANGED <<vecVars, restVars>>
    \/ release_weak(t) /\ UNCHANGED <<vecVars, restVars>>
    \/ delete_control_block(t) /\ UNCHANGED <<vecVars, restVars>>
    \/ shared_finish(t) /\ UNCHANGED <<vecVars, restVars>>
    \/ lock_load(t) /\ UNCHANGED <<vecVars, restVars>>
    \/ lock_expired(t) /\ UNCHANGED <<vecVars, restVars>>
    \/ lock_cas_ok(t) /\ UNCHANGED <<vecVars, restVars>>
    \/ lock_cas_fail(t) /\ UNCHANGED <<vecVars, restVars>>
    \/ /\ \E s \in SSlots \cup {Null}, d \in SSlots : shared_from_this(t, s, d)
       /\ UNCHANGED <<vecVars, restVars>>
    \/ /\ \E k \in Dups, s \in SSlots : esft_copy_ctor(t, k, s)
       /\ UNCHANGED exceptDups
    \/ /\ \E k \in Dups, d \in SSlots : dup_shared_from_this(t, k, d)
       /\ UNCHANGED exceptDups
    \/ /\ \E k \in Dups : dup_dtor(t, k)
       /\ UNCHANGED exceptDups
    \/ dup_finish(t) /\ UNCHANGED exceptDups

(***************************************************************************)
(* Object lifetimes in a vector's block: every call is followed through    *)
(* the placement news, destructor calls, move assignments and memmoves it  *)
(* runs, in the order the code runs them.                                  *)
(***************************************************************************)
LifeOp(o, from, to, n) == [op |-> o, from |-> from, to |-> to, n |-> n]

\* the slots [from, from + n)
Slots(from, n) == from..(from + n - 1)

\* one operation applied to the live slots of the block (live) and of the
\* block try_reserve is filling (fresh)
Apply(st, e) ==
  CASE e.op = "construct" ->
         [st EXCEPT !.ok = @ /\ e.to \notin st.live,
                    !.live = @ \cup {e.to}]
    [] e.op = "move_construct" ->
         [st EXCEPT !.ok = @ /\ e.from \in st.live /\ e.to \notin st.live,
                    !.live = @ \cup {e.to}]
    [] e.op = "move_assign" ->
         [st EXCEPT !.ok = @ /\ e.from \in st.live /\ e.to \in st.live]
    [] e.op = "destroy" ->
         [st EXCEPT !.ok = @ /\ e.to \in st.live,
                    !.live = @ \ {e.to}]
    [] e.op = "memmove" ->
         [st EXCEPT !.ok = /\ @
                           /\ Slots(e.from, e.n) \subseteq st.live
                           /\ (Slots(e.to, e.n) \ Slots(e.from, e.n))
                                \cap st.live = {},
                    !.live = (@ \ Slots(e.from, e.n)) \cup Slots(e.to, e.n)]
    [] e.op = "move_to_new" ->
         [st EXCEPT !.ok = @ /\ e.from \in st.live /\ e.to \notin st.fresh,
                    !.fresh = @ \cup {e.to}]
    [] e.op = "deallocate" ->
         [st EXCEPT !.ok = @ /\ st.live = {}]
    [] e.op = "adopt" ->
         [st EXCEPT !.ok = @ /\ st.live = {},
                    !.live = st.fresh, !.fresh = {}]

RECURSIVE Replay(_, _)
Replay(st, ops) ==
  IF ops = <<>> THEN st ELSE Replay(Apply(st, Head(ops)), Tail(ops))

\* `data_[i].~T()` under `if constexpr (!is_trivially_destructible_v<T>)`
DestroyLife(i) ==
  IF trivially_destructible THEN <<>> ELSE <<LifeOp("destroy", i, i, 1)>>

\* try_reserve, element-wise path: for each i < size_ placement new of
\* new_ptr + i from data_[i] and data_[i].~T(); deallocate(data_) if there
\* was a block; data_ = new_ptr
ReserveLife(n, had_block) ==
  [k \in 1..(2 * n) |->
     IF k % 2 = 1 THEN LifeOp("move_to_new", (k - 1) \div 2, (k - 1) \div 2, 1)
     ELSE LifeOp("destroy", (k - 1) \div 2, (k - 1) \div 2, 1)]
    \o (IF had_block THEN <<LifeOp("deallocate", 0, 0, 0)>> ELSE <<>>)
    \o <<LifeOp("adopt", 0, 0, 0)>>

\* an erase that shifts without destroying the erased element
EraseLife_kept(pos, n) ==
  IF n - pos - 1 > 0
    THEN IF is_relocatable
           THEN <<LifeOp("memmove", pos + 1, pos, n - pos - 1)>>
         ELSE [k \in 1..(2 * (n - pos - 1)) |->
                 IF k % 2 = 1
                   THEN LifeOp("move_construct", pos + (k - 1) \div 2 + 1,
                               pos + (k - 1) \div 2, 1)
                   ELSE LifeOp("destroy", pos + (k - 1) \div 2 + 1,
                               pos + (k - 1) \div 2 + 1, 1)]
    ELSE <<>>

\* try_erase(pos) on n elements: data_[pos].~T(); then memmove of the tail,
\* or for each i < move_count placement new of data_ + pos + i from
\* data_[pos + i + 1] and data_[pos + i + 1].~T()
EraseLife(pos, n) ==
  DestroyLife(pos) \o
    (IF n - pos - 1 > 0
       THEN IF is_relocatable
              THEN <<LifeOp("memmove", pos + 1, pos, n - pos - 1)>>
            ELSE [k \in 1..(2 * (n - pos - 1)) |->
                    IF k % 2 = 1
                      THEN LifeOp("move_construct", pos + (k - 1) \div 2 + 1,
                                  pos + (k - 1) \div 2, 1)
                      ELSE LifeOp("destroy", pos + (k - 1) \div 2 + 1,
                                  pos + (k - 1) \div 2 + 1, 1)]
       ELSE <<>>)

\* try_insert(pos) on n elements: the shift, then placement new at pos
InsertLife(pos, n) ==
  [k \in 1..Len(InsertOps(pos, n)) |->
     LET o == InsertOps(pos, n)[k] IN LifeOp(o.op, o.from, o.to, n - pos)]
    \o <<LifeOp("construct", pos, pos, 1)>>

\* ~vector() and clear(): the destructor loop over [0, size_); ~vector()
\* then deallocates the block
DtorLife(n, had_block) ==
  (IF trivially_destructible \/ ~had_block THEN <<>>
   ELSE [k \in 1..n |-> LifeOp("destroy", k - 1, k - 1, 1)])
    \o (IF had_block THEN <<LifeOp("deallocate", 0, 0, 0)>> ELSE <<>>)

ClearLife(n) ==
  IF trivially_destructible THEN <<>>
  ELSE [k \in 1..n |-> LifeOp("destroy", k - 1, k - 1, 1)]

\* the operations of the call c that has just returned; the reservation a
\* call made shows in the capacity, and it moved the elements one by one
\* when the type is not relocatable and the block is a new one
CallLife(c) ==
  LET v == c.v
      grown == IF /\ cap_'[v] # c.old_cap
                  /\ data_'[v] # c.old_data
                  /\ ~is_relocatable
                 THEN ReserveLife(c.old_size, c.old_data # Null)
               ELSE <<>>
  IN CASE c.op \in {"try_push_back", "try_emplace_back"} ->
            grown \o (IF size_'[v] # c.old_size
                        THEN <<LifeOp("construct", c.old_size, c.old_size, 1)>>
                      ELSE <<>>)
       [] c.op = "try_insert" ->
            grown \o (IF c.res = "ok" THEN InsertLife(c.n, c.old_size)
                      ELSE <<>>)
       [] c.op = "try_reserve" -> grown
       [] c.op = "try_pop_back" ->
            IF c.res = "ok" THEN DestroyLife(c.old_size - 1) ELSE <<>>
       [] c.op = "try_erase" ->
            IF c.res = "ok" THEN EraseLife(c.n, c.old_size) ELSE <<>>
       [] c.op = "clear" -> ClearLife(c.old_size)
       [] c.op = "dtor" -> DtorLife(c.old_size, c.old_data # Null)
       [] OTHER -> <<>>

\* the lifetimes after the call that the vector step has just recorded
LifeStep ==
  IF last' = NoCall THEN UNCHANGED lifeVars
  ELSE IF last'.op = "move_ctor"
    THEN /\ live_slots' = [live_slots EXCEPT ![last'.n] = live_slots[last'.v],
                                             ![last'.v] = {}]
         /\ UNCHANGED life_ok
  ELSE LET r == Replay([live |-> live_slots[last'.v], fresh |-> {},
                        ok |-> TRUE],
                       CallLife(last'))
       IN /\ live_slots' = [live_slots EXCEPT ![last'.v] = r.live]
          /\ life_ok' = (life_ok /\ r.ok)

\* element types with a destructor: relocatable, and moved one by one
InitLifetimes ==
  /\ InitShared
  /\ InitRest
  /\ is_relocatable \in BOOLEAN
  /\ trivially_destructible = FALSE
  /\ InitVectorFields

NextLife ==
  \E v \in Vecs :
    \/ /\ \E n \in 0..MaxCap, out \in ReserveOuts :
             try_reserve(v, n, out, MaxCap)
       /\ LifeStep /\ UNCHANGED exceptLife
    \/ /\ \E val \in Values, out \in ReserveOuts :
             try_push_back(v, val, out, MaxCap)
       /\ LifeStep /\ UNCHANGED exceptLife
    \/ try_pop_back(v) /\ LifeStep /\ UNCHANGED exceptLife
    \/ clear(v, 4) /\ LifeStep /\ UNCHANGED exceptLife
    \/ /\ \E pos \in 0..MaxCap : try_erase(v, pos)
       /\ LifeStep /\ UNCHANGED exceptLife
    \/ /\ \E pos \in 0..MaxCap, val \in Values, out \in ReserveOuts :
             try_insert(v, pos, val, out, MaxCap)
       /\ LifeStep /\ UNCHANGED exceptLife
    \/ /\ \E s \in Vecs : move_ctor(v, s)
       /\ LifeStep /\ UNCHANGED exceptLife
    \/ dtor(v) /\ LifeStep /\ UNCHANGED exceptLife
    \/ ctor(v) /\ LifeStep /\ UNCHANGED exceptLife
    \/ vector_return /\ LifeStep /\ UNCHANGED exceptLife

(***************************************************************************)
(* vector<T> on a stack_allocator, sizeof(T) = alignof(T) = 1: try_reserve *)
(* with the allocator's expand_in_place, reallocate and allocate in place  *)
(* of the abstract allocator's answers.                                    *)
(***************************************************************************)
\* element types: relocatable, and moved one by one
InitStackVector ==
  /\ InitShared
  /\ InitRest
  /\ is_relocatable \in BOOLEAN
  /\ trivially_destructible = TRUE
  /\ InitVectorFields

\* stack_allocator::allocate(bytes, 1) would return a block
CouldAllocate(bytes) ==
  std_align(1, bytes, buffer_ + offset_, capacity_ - offset_) # Null

\* stack_allocator::expand_in_place(ptr, old_size, new_size) succeeds
CouldExpand(ptr, old_size, new_size) ==
  /\ EndsAtOffset(ptr, old_size)
  /\ offset_ + (new_size - old_size) <= capacity_

\* stack_allocator::reallocate: `return unexpected(allocation_failed)`
CouldReallocate(ptr, old_size, new_size) == FALSE

\* vector::try_reserve(new_cap) with alloc_ a stack_allocator
sv_try_reserve(v, new_cap) ==
  /\ last = NoCall
  /\ alive[v]
  /\ sa_alive
  /\ Len(sa_blocks) < SaMaxBlocks
  /\ LET done(res) == Call("try_reserve", v, new_cap, 0, res) @@
                        [could_allocate |-> CouldAllocate(new_cap)]
         aligned_ptr == std_align(1, new_cap, buffer_ + offset_,
                                  capacity_ - offset_)
     IN IF new_cap <= cap_[v]
          THEN /\ last' = done("ok")
               /\ UNCHANGED <<data_, cap_, offset_, sa_blocks>>
        ELSE IF data_[v] # Null /\ CouldExpand(data_[v], cap_[v], new_cap)
          THEN /\ offset_' = offset_ + (new_cap - cap_[v])
               /\ cap_' = [cap_ EXCEPT ![v] = new_cap]
               /\ sa_blocks' =
                    [j \in 1..Len(sa_blocks) |->
                       IF /\ sa_blocks[j].ptr = data_[v]
                          /\ sa_blocks[j].size = cap_[v]
                         THEN [sa_blocks[j] EXCEPT !.size = new_cap]
                         ELSE sa_blocks[j]]
               /\ last' = done("ok")
               /\ UNCHANGED data_
        ELSE IF is_relocatable
          THEN IF CouldReallocate(data_[v], cap_[v], new_cap)
                 THEN FALSE
                 ELSE /\ last' = done("allocation_failed")
                      /\ UNCHANGED <<data_, cap_, offset_, sa_blocks>>
        ELSE IF aligned_ptr = Null
          THEN /\ last' = done("allocation_failed")
               /\ UNCHANGED <<data_, cap_, offset_, sa_blocks>>
          ELSE /\ offset_' = aligned_ptr + new_cap - buffer_
               /\ sa_blocks' = Append(sa_blocks,
                                 [ptr |-> aligned_ptr, size |-> new_cap,
                                  alignment |-> 1])
               /\ data_' = [data_ EXCEPT ![v] = aligned_ptr]
               /\ cap_' = [cap_ EXCEPT ![v] = new_cap]
               /\ last' = done("ok")
  /\ UNCHANGED <<is_relocatable, trivially_destructible, alive, size_, mem,
                 pushes_only, sa_alive, buffer_, capacity_, sa_last>>

NextStackVector ==
  \/ (\E ptr \in SaBases, size \in SaCapacities : sa_ctor(ptr, size))
       /\ UNCHANGED exceptStack
  \/ (\E bytes \in 0..SaMaxBytes, alignment \in SaAlignments :
        sa_allocate(bytes, alignment))
       /\ UNCHANGED exceptStack
  \/ (\E new_cap \in 0..SaMaxBytes : sv_try_reserve(1, new_cap))
       /\ UNCHANGED exceptStackVector
  \/ vector_return /\ UNCHANGED <<spVars, restVars>>

(***************************************************************************)
(* Vectors that are reserved, filled, popped and cloned.                   *)
(***************************************************************************)
NextClone ==
  \E v \in Vecs :
    \/ /\ \E n \in 1..MaxCap, out \in ReserveOuts :
             try_reserve(v, n, out, MaxCap)
       /\ UNCHANGED <<spVars, restVars>>
    \/ /\ \E val \in Values, out \in ReserveOuts :
             try_push_back(v, val, out, MaxCap)
       /\ UNCHANGED <<spVars, restVars>>
    \/ try_pop_back(v) /\ UNCHANGED <<spVars, restVars>>
    \/ /\ \E s \in Vecs, path \in ClonePaths, out \in {"moved", "fail"},
            k \in {NoFail} \cup (0..(MaxCap - 1)), err \in AllocErrors :
             try_clone(v, s, path, out, k, err, MaxCap)
       /\ UNCHANGED <<spVars, restVars>>
    \/ dtor(v) /\ UNCHANGED <<spVars, restVars>>
    \/ ctor(v) /\ UNCHANGED <<spVars, restVars>>
    \/ vector_return /\ UNCHANGED <<spVars, restVars>>

(***************************************************************************)
(* Growth of one vector<int> from capacity 0 under an allocator with room  *)
(* for GrowthCap elements: pushes of the next index, reserves, pops.       *)
(***************************************************************************)
InitGrowth ==
  /\ InitShared
  /\ InitRest
  /\ is_relocatable = TRUE
  /\ trivially_destructible = TRUE
  /\ InitVectorFields

NextGrowth ==
  \/ /\ \E n \in 1..3, out \in ReserveOuts : try_reserve(1, n, out, GrowthCap)
     /\ UNCHANGED <<spVars, restVars>>
  \/ /\ \E out \in ReserveOuts :
          /\ size_[1] < GrowthLen
          /\ try_push_back(1, size_[1], out, GrowthCap)
     /\ UNCHANGED <<spVars, restVars>>
  \/ try_pop_back(1) /\ UNCHANGED <<spVars, restVars>>
  \/ vector_return /\ UNCHANGED <<spVars, restVars>>

NextShared ==
  \E t \in Threads :
    \/ /\ \E d \in SSlots, e \in BOOLEAN, ok \in BOOLEAN :
             try_allocate_shared(t, d, e, ok)
       /\ UNCHANGED <<vecVars, restVars>>
    \/ Return(t) /\ UNCHANGED <<vecVars, restVars>>
    \/ /\ \E d \in SSlots, s \in SSlots : shared_copy_ctor(t, d, s)
       /\ UNCHANGED <<vecVars, restVars>>
    \/ /\ \E d \in SSlots, s \in SSlots : shared_move_ctor(t, d, s)
       /\ UNCHANGED <<vecVars, restVars>>
    \/ /\ \E o \in SharedOps, d \in SSlots, s \in SSlots \cup {Null} :
             shared_begin(t, o, d, s)
       /\ UNCHANGED <<vecVars, restVars>>
    \/ release_shared(t) /\ UNCHANGED <<vecVars, restVars>>
    \/ delete_ptr(t) /\ UNCHANGED <<vecVars, restVars>>
    \/ release_weak(t) /\ UNCHANGED <<vecVars, restVars>>
    \/ delete_control_block(t) /\ UNCHANGED <<vecVars, restVars>>
    \/ shared_finish(t) /\ UNCHANGED <<vecVars, restVars>>
    \/ /\ \E w \in WSlots, s \in SSlots : weak_from_shared(t, w, s)
       /\ UNCHANGED <<vecVars, restVars>>
    \/ /\ \E w \in WSlots, v \in WSlots : weak_copy_ctor(t, w, v)
       /\ UNCHANGED <<vecVars, restVars>>
    \/ /\ \E w \in WSlots, v \in WSlots : weak_move_ctor(t, w, v)
       /\ UNCHANGED <<vecVars, restVars>>
    \/ /\ \E o \in WeakOps, w \in WSlots, v \in WSlots \cup {Null} :
             weak_begin(t, o, w, v)
       /\ UNCHANGED <<vecVars, restVars>>
    \/ weak_finish(t) /\ UNCHANGED <<vecVars, restVars>>
    \/ /\ \E w \in WSlots, d \in SSlots : lock_begin(t, w, d)
       /\ UNCHANGED <<vecVars, restVars>>
    \/ lock_load(t) /\ UNCHANGED <<vecVars, restVars>>
    \/ lock_expired(t) /\ UNCHANGED <<vecVars, restVars>>
    \/ lock_cas_ok(t) /\ UNCHANGED <<vecVars, restVars>>
    \/ lock_cas_fail(t) /\ UNCHANGED <<vecVars, restVars>>

NextFromThis ==
  \/ NextShared
  \/ /\ \E t \in Threads, s \in SSlots \cup {Null}, d \in SSlots :
          shared_from_this(t, s, d)
     /\ UNCHANGED <<vecVars, restVars>>

NextCast ==
  \/ NextShared
  \/ /\ \E t \in Threads, o \in CastOps, d \in SSlots, s \in SSlots,
            fits \in BOOLEAN :
          pointer_cast(t, o, d, s, fits)
     /\ UNCHANGED <<vecVars, restVars>>

SpecShared == InitGrowth /\ [][NextShared]_vars

SpecCast == InitGrowth /\ [][NextCast]_vars

SpecFromThis == InitGrowth /\ [][NextFromThis]_vars

SpecVector == InitVector /\ [][NextVector]_vars

SpecClone == InitVector /\ [][NextClone]_vars

SpecGrowth == InitGrowth /\ [][NextGrowth]_vars

SpecCreate == InitGrowth /\ [][NextCreate]_vars

SpecHelpers == InitHelpers /\ [][NextHelpers]_vars

SpecArrays == InitGrowth /\ [][NextArrays]_vars

SpecStrings == InitGrowth /\ [][NextStrings]_vars

SpecSingleton == InitGrowth /\ [][NextSingleton]_vars

SpecStack == InitGrowth /\ [][NextStack]_vars

\* the lazy-initialisation wrappers
SpecLazy == InitGrowth /\ [][NextLazy]_vars

\* shared objects and their copy-constructed duplicates
SpecDups == InitGrowth /\ [][NextDups]_vars

\* vectors with the lifetime of every slot followed
SpecLife == InitLifetimes /\ [][NextLife]_vars

\* a vector on a stack allocator that other callers use as well
SpecStackVector == InitStackVector /\ [][NextStackVector]_vars



(***************************************************************************)
(* Properties of the shared/weak handles (SpecShared).                     *)
(***************************************************************************)
\* no thread is inside a handle operation
Quiescent == \A t \in Threads : pc[t] \in {"idle", "ret"}

\* the reference of handle h has already been given up by the operation
\* that is rewriting or destroying it (its fetch_sub has happened)
DroppedS(h) ==
  \E t \in Threads :
     op[t] \in SharedOps /\ sdst[t] = h /\ cur[t] # Null /\ pc[t] # "rs_sub"

DroppedW(w) ==
  \E t \in Threads :
     op[t] \in WeakOps /\ wdst[t] = w /\ cur[t] # Null /\ pc[t] # "rw_sub"

LiveShared(b) == {h \in SSlots : sp_block_[h] = b /\ ~DroppedS(h)}
LiveWeak(b) == {w \in WSlots : wp_block_[w] = b /\ ~DroppedW(w)}

\* a thread has taken the shared count to zero and is about to run ~T()
DeletePending(b) == \E t \in Threads : pc[t] = "rs_del" /\ cur[t] = b

\* C1: when lock() on a bound weak handle races with the drop of the last
\* shared handle, lock() ends in exactly one of two ways: it returns a handle
\* (then the object is not destroyed and no destruction is pending for as
\* long as the caller holds it), or it returns pointer_expired (then the
\* count is zero and destruction has begun); it never hands out a handle to
\* an object whose destruction has begun.
C1_UpgradeRace ==
  \A t \in Threads :
    (pc[t] = "ret" /\ op[t] = "lock" /\ cur[t] # Null) =>
       /\ result[t] \in {"ok", "pointer_expired"}
       /\ result[t] = "ok" =>
            /\ sp_block_[sdst[t]] = cur[t]
            /\ destroyed[cur[t]] = 0
            /\ ~DeletePending(cur[t])
            /\ shared_count_[cur[t]] >= 1
       /\ result[t] = "pointer_expired" =>
            /\ sp_block_[sdst[t]] = Null
            /\ shared_count_[cur[t]] = 0
            /\ (destroyed[cur[t]] = 1 \/ DeletePending(cur[t]))

\* lock() has returned pointer_expired while the other thread, which took
\* the count to zero, has not yet run the destructor
C1_Witness ==
  \E t \in Threads, u \in Threads :
     /\ t # u
     /\ pc[t] = "ret" /\ op[t] = "lock" /\ result[t] = "pointer_expired"
     /\ pc[u] = "rs_del" /\ cur[u] = cur[t]

\* C2: delete_ptr runs at most once per block, only by the thread that took
\* the shared count from 1 to 0, never while a shared handle bound to the
\* block is live, and it has run exactly once when every shared handle is
\* gone and no operation is in progress.
C2_DestroyedOnce ==
  \A b \in Blocks :
    /\ destroyed[b] +
         Cardinality({t \in Threads : pc[t] = "rs_del" /\ cur[t] = b}) <= 1
    /\ LiveShared(b) # {} => (destroyed[b] = 0 /\ ~DeletePending(b))
    /\ (destroyed[b] = 1 \/ DeletePending(b)) => shared_count_[b] = 0
    /\ (Quiescent /\ cb_state[b] # "none" /\ LiveShared(b) = {})
          => destroyed[b] = 1

\* the object is destroyed, a weak handle still refers to its block
C2_Witness ==
  /\ Quiescent
  /\ \E b \in Blocks : destroyed[b] = 1 /\ \E w \in WSlots : wp_block_[w] = b

\* C3: delete_control_block runs at most once per block, only after the
\* object was destroyed and both counters are zero, never while a shared or
\* weak handle refers to the block (so a weak handle that outlives every
\* shared handle still reads a block that is not released), no counter of a
\* released block is ever accessed, and the block is released once every
\* handle is gone.
C3_BlockReleasedOnce ==
  /\ ~uaf
  /\ \A b \in Blocks :
       /\ freed[b] <= 1
       /\ cb_state[b] = "freed" =>
            /\ freed[b] = 1
            /\ destroyed[b] = 1
            /\ shared_count_[b] = 0
            /\ weak_count_[b] = 0
       /\ (LiveShared(b) # {} \/ LiveWeak(b) # {}) => cb_state[b] = "live"
       /\ (Quiescent /\ cb_state[b] # "none" /\ LiveShared(b) = {}
             /\ LiveWeak(b) = {}) => freed[b] = 1

\* the block of an enable_shared_from_this object has been released
C3_Witness ==
  /\ Quiescent
  /\ \E b \in Blocks : freed[b] = 1 /\ esft[b]

\* C4: with no operation in progress use_count() of a handle is the number
\* of shared handles bound to its block (1 when fresh, n + 1 after n copies,
\* unchanged by a move, which leaves the source empty), and once no handle
\* is left the destructor has run exactly once.
C4_UseCount ==
  Quiescent =>
    /\ \A h \in SSlots :
          use_count(h) =
            IF sp_block_[h] = Null THEN 0
            ELSE Cardinality({g \in SSlots : sp_block_[g] = sp_block_[h]})
    /\ \A b \in Blocks :
          (cb_state[b] # "none" /\ \A h \in SSlots : sp_block_[h] # b)
             => destroyed[b] = 1

\* two copies of a fresh handle: use_count() is 3
C4_Witness ==
  /\ Quiescent
  /\ \E h \in SSlots : use_count(h) = 3

\* thread t takes a step of weak_ptr::lock
LockStep(t) ==
  \/ pc[t] = "idle" /\ op'[t] = "lock"
  \/ /\ pc[t] \in {"lock_load", "lock_loop"}
     /\ <<pc[t], count[t]>> # <<pc'[t], count'[t]>>

\* C5: lock() returns empty_pointer exactly when the weak handle is not
\* bound; it returns pointer_expired only when the shared count is zero;
\* when it returns a handle the shared count was nonzero and the step raises
\* it by exactly one; no step of a failing lock() changes either counter.
C5_LockOutcome ==
  [][\A t \in Threads :
       LockStep(t) =>
         LET b == cur'[t]
             w == wsrc'[t]
             done == pc'[t] = "ret"
         IN /\ done => (result'[t] = "empty_pointer" <=> wp_block_[w] = Null)
            /\ (done /\ result'[t] = "pointer_expired") =>
                  shared_count_[b] = 0
            /\ (done /\ result'[t] = "ok") =>
                  /\ shared_count_[b] >= 1
                  /\ shared_count_' =
                       [shared_count_ EXCEPT ![b] = shared_count_[b] + 1]
                  /\ sp_block_'[sdst'[t]] = b
            /\ ~(done /\ result'[t] = "ok") =>
                  /\ shared_count_' = shared_count_
                  /\ sp_block_' = sp_block_
            /\ weak_count_' = weak_count_]_vars

\* lock() has returned a second handle to a live object
C5_Witness ==
  \E t \in Threads :
     /\ pc[t] = "ret" /\ op[t] = "lock" /\ result[t] = "ok"
     /\ shared_count_[cur[t]] = 2


(***************************************************************************)
(* Properties of the growable buffer (SpecVector, SpecGrowth).  They are   *)
(* read off the record of the call that has just returned.                 *)
(***************************************************************************)
\* the call that has just returned is operation o with result r
Returned(o, r) == last.op = o /\ last.res = r

\* sequence s without its element at index i (1-based)
Without(s, i) == [j \in 1..(Len(s) - 1) |-> IF j < i THEN s[j] ELSE s[j + 1]]

\* C6: when try_reserve(n) returns allocation_failed the vector's length,
\* capacity, data pointer and every element are what they were before the
\* call, whether the element type is relocatable or not.
C6_ReserveFailureKeepsBuffer ==
  Returned("try_reserve", "allocation_failed") =>
    /\ size_[last.v] = last.old_size
    /\ cap_[last.v] = last.old_cap
    /\ data_[last.v] = last.old_data
    /\ Contents(last.v) = last.old_elems

\* a reservation on a non-relocatable vector holding two elements failed
C6_Witness ==
  /\ Returned("try_reserve", "allocation_failed")
  /\ ~is_relocatable
  /\ last.old_size >= 2
  /\ last.n > last.old_cap

\* C7: after a successful call that grew the capacity through try_reserve
\* (in place, by reallocate, or by allocate-and-move) every element that was
\* in the vector before the call reads back with its old value: at its old
\* index after try_reserve, try_push_back and try_emplace_back, and at its
\* old index once the inserted element is left out after try_insert; the
\* reservation itself leaves the length alone, and the push, emplace or
\* insert that asked for it adds exactly its one element.
C7_GrowthKeepsElements ==
  (last.op \in {"try_reserve", "try_push_back", "try_emplace_back",
                "try_insert"}
     /\ last.res = "ok" /\ cap_[last.v] > last.old_cap) =>
       LET now == Contents(last.v) IN
       CASE last.op = "try_reserve" ->
              size_[last.v] = last.old_size /\ now = last.old_elems
         [] last.op = "try_insert" ->
              /\ size_[last.v] = last.old_size + 1
              /\ Without(now, last.n + 1) = last.old_elems
         [] OTHER ->
              /\ size_[last.v] = last.old_size + 1
              /\ SubSeq(now, 1, last.old_size) = last.old_elems

\* a non-relocatable vector of two elements has grown into a new block
C7_Witness ==
  /\ last.op \in {"try_reserve", "try_push_back", "try_insert"}
  /\ last.res = "ok"
  /\ ~is_relocatable
  /\ last.old_size >= 2
  /\ cap_[last.v] > last.old_cap
  /\ data_[last.v] # last.old_data

\* C8: in every state of every vector, including a moved-from one,
\* size_ <= cap_ and data_ is null exactly when cap_ is 0.
C8_SizeCapData ==
  \A v \in Vecs :
     /\ size_[v] <= cap_[v]
     /\ data_[v] = Null <=> cap_[v] = 0

\* a vector that owned a block with elements has been moved from
C8_Witness ==
  /\ Returned("move_ctor", "ok")
  /\ last.old_cap > 0
  /\ last.old_size > 0
  /\ cap_[last.n] = last.old_cap

\* the capacity a chain of pushes from an empty vector has reached
PushedCap(n) == IF n = 0 THEN 0 ELSE IF n <= 8 THEN 8 ELSE 16

\* C9 (as the code has it): a successful push at the end of a full vector
\* leaves capacity 8 when the capacity was 0 and twice the old capacity
\* otherwise; a push with length < capacity, and a failed push, leave the
\* capacity alone; pushing 0, 1, ..., 8 into a fresh int vector takes the
\* capacity through 0, 8, 16, ends with length 9 and reads back 0..8.
C9_PushGrowth ==
  /\ last.op = "try_push_back" =>
       cap_[last.v] =
         IF last.res = "ok" /\ last.old_size = last.old_cap
           THEN (IF last.old_cap = 0 THEN 8 ELSE 2 * last.old_cap)
           ELSE last.old_cap
  /\ pushes_only[1] =>
       /\ cap_[1] = PushedCap(size_[1])
       /\ Contents(1) = [i \in 1..size_[1] |-> i - 1]

\* 0..8 have been pushed into the fresh vector
C9_Witness ==
  /\ pushes_only[1]
  /\ size_[1] = 9
  /\ Returned("try_push_back", "ok")

\* C9 (as stated): a successful push at the end of a full vector leaves the
\* capacity at max(capacity * 2, 8).
C9_AsStated ==
  (Returned("try_push_back", "ok") /\ last.old_size = last.old_cap) =>
     cap_[last.v] =
       IF 2 * last.old_cap >= 8 THEN 2 * last.old_cap ELSE 8

\* C10: a successful try_insert(pos, val) leaves
\* old[0..pos) ++ [val] ++ old[pos..length) and a length one larger,
\* whether the element type is relocatable or not.
C10_InsertOrder ==
  Returned("try_insert", "ok") =>
    /\ last.n <= last.old_size
    /\ size_[last.v] = last.old_size + 1
    /\ Contents(last.v) =
         SubSeq(last.old_elems, 1, last.n) \o <<last.val>>
           \o SubSeq(last.old_elems, last.n + 1, last.old_size)

\* insertion at position 1 of three elements of a non-relocatable type
C10_Witness ==
  /\ Returned("try_insert", "ok")
  /\ ~is_relocatable
  /\ last.old_size = 3
  /\ last.n = 1


\* C11: try_insert returns out_of_range exactly when pos > length,
\* try_erase exactly when pos >= length, try_pop_back exactly when the
\* vector is empty, and a call that returned out_of_range has left length,
\* capacity, data pointer and every element as they were.
C11_OutOfRangeKeepsBuffer ==
  /\ last.op = "try_insert" =>
       (last.res = "out_of_range" <=> last.n > last.old_size)
  /\ last.op = "try_erase" =>
       (last.res = "out_of_range" <=> last.n >= last.old_size)
  /\ last.op = "try_pop_back" =>
       (last.res = "out_of_range" <=> last.old_size = 0)
  /\ (last.op \in {"try_insert", "try_erase", "try_pop_back"}
        /\ last.res = "out_of_range") =>
       /\ size_[last.v] = last.old_size
       /\ cap_[last.v] = last.old_cap
       /\ data_[last.v] = last.old_data
       /\ Contents(last.v) = last.old_elems

\* try_erase(pos) with pos == length on a vector holding elements
C11_Witness ==
  /\ Returned("try_erase", "out_of_range")
  /\ last.old_size >= 2
  /\ last.n = last.old_size

\* C12: a successful try_erase(pos) had pos < length and leaves
\* old[0..pos) ++ old[pos+1..length), a length one smaller, the same
\* capacity and block; of the objects whose destructor it runs exactly one
\* is an element (the one at pos), the others are moved-from leftovers;
\* whether the element type is relocatable or not.
C12_EraseOrder ==
  Returned("try_erase", "ok") =>
    /\ last.n < last.old_size
    /\ size_[last.v] = last.old_size - 1
    /\ cap_[last.v] = last.old_cap
    /\ data_[last.v] = last.old_data
    /\ Contents(last.v) = Without(last.old_elems, last.n + 1)
    /\ ~trivially_destructible =>
         SelectSeq(last.dtors, LAMBDA c : c # Moved)
           = <<last.old_elems[last.n + 1]>>

\* the first of three elements of a non-relocatable type has been erased
C12_Witness ==
  /\ Returned("try_erase", "ok")
  /\ ~is_relocatable
  /\ last.old_size = 3
  /\ last.n = 0

\* C13: clear() leaves length 0 and the capacity and block it found; on a
\* vector that is already empty (never filled, or just cleared) it runs no
\* destructor and changes no cell of the block.
C13_ClearIdempotent ==
  Returned("clear", "ok") =>
    /\ size_[last.v] = 0
    /\ cap_[last.v] = last.old_cap
    /\ data_[last.v] = last.old_data
    /\ last.old_size = 0 =>
         /\ last.dtors = <<>>
         /\ Block(last.v) = last.old_block

\* clear() on an empty vector that owns a block, non-trivial destructor
C13_Witness ==
  /\ Returned("clear", "ok")
  /\ last.old_size = 0
  /\ last.old_cap > 0
  /\ ~trivially_destructible


(***************************************************************************)
(* Properties of handle creation (SpecCreate).                             *)
(***************************************************************************)
\* C14: when a step of try_allocate_shared or try_allocate_combined_shared
\* fails (allocation of the object or of the combined region, the factory,
\* allocation of the control block), the function returns that step's
\* error, every block it obtained has been deallocated and no object is
\* live; and it returns an error only when a step failed.
C14_CreationUnwinds ==
  \A i \in Attempts :
    /\ cr_pc[i] = "failed" =>
         /\ cr_fault[i] # NoFault
         /\ cr_result[i] = cr_fault[i][2]
         /\ HeldBy(i) = {}
         /\ cr_objects[i] = 0
    /\ cr_result[i] \notin {"none", "ok"} => cr_pc[i] = "failed"

\* the factory of a combined creation has returned invalid_argument
C14_Witness ==
  \E i \in Attempts :
    /\ cr_pc[i] = "failed"
    /\ cr_layout[i] = "combined"
    /\ cr_fault[i] = <<"create", "invalid_argument">>


(***************************************************************************)
(* construction_helpers                                                    *)
(***************************************************************************)
Factories == {"try_allocate", "try_create"}

\* C15: try_construct uses exactly one strategy, the first the type offers
\* in the order two-phase hook, T::try_allocate, T::try_create, plain
\* construction.
C15_ConstructPriority ==
  ch_last.op = "try_construct" =>
    /\ ch_last.calls = <<ch_last.strategy>>
    /\ "try_construct" \in ch_caps => ch_last.strategy = "try_construct"
    /\ ("try_construct" \notin ch_caps /\ "try_allocate" \in ch_caps)
         => ch_last.strategy = "try_allocate"
    /\ ({"try_construct", "try_allocate"} \cap ch_caps = {}
          /\ "try_create" \in ch_caps)
         => ch_last.strategy = "try_create"
    /\ {"try_construct", "try_allocate", "try_create"} \cap ch_caps = {}
         => ch_last.strategy = "plain"

C15_Witness ==
  /\ ch_last.op = "try_construct"
  /\ {"try_construct", "try_allocate", "try_create"} \subseteq ch_caps
  /\ ch_last.strategy = "try_construct"

\* C16 as stated: try_construct and try_allocate select the same strategy
\* for every combination of capabilities.
C16_AsStated ==
  (ch_used["try_construct"] # "none" /\ ch_used["try_allocate"] # "none")
    => ch_used["try_allocate"] = ch_used["try_construct"]

\* C16: try_allocate uses the first the type offers in the order
\* T::try_allocate, T::try_create, two-phase hook, plain construction; it
\* selects the same strategy as try_construct exactly for the types that do
\* not combine the two-phase hook with a factory.
C16_AllocatePriority ==
  /\ ch_last.op = "try_allocate" =>
       /\ ch_last.calls = <<ch_last.strategy>>
       /\ "try_allocate" \in ch_caps => ch_last.strategy = "try_allocate"
       /\ ("try_allocate" \notin ch_caps /\ "try_create" \in ch_caps)
            => ch_last.strategy = "try_create"
       /\ (Factories \cap ch_caps = {} /\ "try_construct" \in ch_caps)
            => ch_last.strategy = "try_construct"
       /\ {"try_construct", "try_allocate", "try_create"} \cap ch_caps = {}
            => ch_last.strategy = "plain"
  /\ (ch_used["try_construct"] # "none" /\ ch_used["try_allocate"] # "none")
       => ((ch_used["try_allocate"] = ch_used["try_construct"])
            <=> ~("try_construct" \in ch_caps
                   /\ Factories \cap ch_caps # {}))

C16_Witness ==
  /\ ch_last.op = "try_allocate"
  /\ ch_used["try_construct"] = "try_construct"
  /\ ch_used["try_allocate"] = "try_create"
  /\ ch_caps \cap {"try_construct", "try_allocate", "try_create"}
       = {"try_construct", "try_create"}

\* C17: try_clone uses the first the type offers in the order
\* try_clone(alloc), try_clone(), T::try_allocate(alloc, source),
\* T::try_create(source), plain copy; the allocator-aware strategies get the
\* caller's allocator; the strategy's outcome is returned unchanged.
C17_ClonePriority ==
  ch_last.op = "try_clone" =>
    /\ ch_last.calls = <<ch_last.strategy>>
    /\ "try_clone_alloc" \in ch_caps
         => ch_last.strategy = "try_clone_alloc"
    /\ ("try_clone_alloc" \notin ch_caps /\ "try_clone" \in ch_caps)
         => ch_last.strategy = "try_clone"
    /\ ({"try_clone_alloc", "try_clone"} \cap ch_caps = {}
          /\ "try_allocate_src" \in ch_caps)
         => ch_last.strategy = "try_allocate_src"
    /\ ({"try_clone_alloc", "try_clone", "try_allocate_src"} \cap ch_caps
           = {} /\ "try_create_src" \in ch_caps)
         => ch_last.strategy = "try_create_src"
    /\ {"try_clone_alloc", "try_clone", "try_allocate_src",
         "try_create_src"} \cap ch_caps = {}
         => ch_last.strategy = "copy"
    /\ ch_last.strategy \in {"try_clone_alloc", "try_allocate_src"}
         => ch_last.alloc_seen = ch_last.a
    /\ ch_last.strategy \in {"try_clone", "try_create_src", "copy"}
         => ch_last.alloc_seen = 0
    /\ ch_last.res = ch_last.r

C17_Witness ==
  /\ ch_last.op = "try_clone"
  /\ ch_last.strategy = "try_allocate_src"
  /\ "try_create_src" \in ch_caps
  /\ ch_last.a = NAllocs
  /\ ch_last.alloc_seen = NAllocs
  /\ ch_last.res = "allocation_failed"

\* C18: when the two-phase hook fails in try_construct the shell is
\* destroyed once, the hook's error is returned and the storage holds no
\* object; when it succeeds the shell is not destroyed and the storage holds
\* one object.
C18_ShellRollback ==
  (ch_last.op = "try_construct" /\ ch_last.strategy = "try_construct") =>
    /\ ch_last.shell_ctors = 1
    /\ ch_last.res = ch_last.r
    /\ ch_last.r # "ok" => (ch_last.shell_dtors = 1 /\ ch_storage = 0)
    /\ ch_last.r = "ok" => (ch_last.shell_dtors = 0 /\ ch_storage = 1)

C18_Witness ==
  /\ ch_last.op = "try_construct"
  /\ ch_last.strategy = "try_construct"
  /\ ch_last.r = "invalid_argument"
  /\ ch_last.shell_dtors = 1
  /\ ch_storage = 0

(***************************************************************************)
(* allocator_helper::allocate_array                                        *)
(***************************************************************************)
\* C19: when the hook fails at index k of an N-element allocate_array, the k
\* elements built before it are destroyed by the rollback (k destructor
\* calls when the type has a destructor to run), no object is left live,
\* the block is returned and the hook's error is the result.
C19_ArrayRollback ==
  (ar_pc = "done" /\ ar_fault.step = "hook") =>
    /\ ar_fault.k < ar_count
    /\ ar_stats.completed = ar_fault.k
    /\ ~ar_trivial => ar_stats.rollback_dtors = ar_fault.k
    /\ ar_stats.shells = ar_fault.k + 1
    /\ ar_stats.shell_dtors = 1
    /\ ar_live = {}
    /\ ~ar_block
    /\ ar_result = ar_fault.err
    /\ ar_result \in HelperErrors

C19_Witness ==
  /\ ar_pc = "done"
  /\ ar_fault.step = "hook"
  /\ ar_fault.k = MaxCount - 2
  /\ ar_count = MaxCount
  /\ ~ar_trivial
  /\ ar_stats.rollback_dtors = MaxCount - 2
  /\ ar_live = {}

(***************************************************************************)
(* enable_shared_from_this                                                 *)
(***************************************************************************)
\* thread t takes a step of shared_from_this
FromThisStep(t) ==
  \/ pc[t] = "idle" /\ op'[t] = "shared_from_this"
  \/ /\ op[t] = "shared_from_this"
     /\ pc[t] \in {"lock_load", "lock_loop"}
     /\ <<pc[t], count[t]>> # <<pc'[t], count'[t]>>

HandlesOn(b) == {h \in SSlots : sp_block_[h] = b}

\* C21: a static, const or successful dynamic cast binds the new handle to
\* the source's control block and raises the one shared count by one, so
\* both handles report c + 1; a failed dynamic cast returns an empty handle
\* and changes no count; with no operation in progress the count of a block
\* is the number of handles on it, cast or not, and its object is destroyed
\* only when none is left.
C21_CastShares ==
  /\ [](Quiescent =>
          \A b \in Blocks :
            /\ HandlesOn(b) # {} =>
                 /\ destroyed[b] = 0
                 /\ \A h \in HandlesOn(b) :
                      use_count(h) = Cardinality(HandlesOn(b))
            /\ (HandlesOn(b) = {} /\ cb_state[b] # "none")
                 => destroyed[b] = 1)
  /\ [][\A t \in Threads :
          (pc[t] = "idle" /\ op'[t] \in CastOps) =>
            LET s == ssrc'[t]
                d == sdst'[t]
                b == sp_block_[s]
            IN IF result'[t] = "ok"
                 THEN /\ b # Null
                      /\ sp_block_'[d] = b
                      /\ sp_block_'[s] = b
                      /\ shared_count_' =
                           [shared_count_ EXCEPT ![b] = shared_count_[b] + 1]
                 ELSE /\ op'[t] = "dynamic_pointer_cast" \/ b = Null
                      /\ sp_block_'[d] = Null
                      /\ sp_block_' = sp_block_
                      /\ shared_count_' = shared_count_]_vars

\* a dynamic cast has produced a second handle: both report 2
C21_Witness ==
  \E t \in Threads :
    /\ op[t] = "dynamic_pointer_cast" /\ pc[t] = "ret" /\ result[t] = "ok"
    /\ sp_block_[sdst[t]] = sp_block_[ssrc[t]]
    /\ use_count(sdst[t]) = 2
    /\ use_count(ssrc[t]) = 2

(***************************************************************************)
(* basic_string                                                            *)
(***************************************************************************)
\* C22 as stated: after any sequence of string operations the byte at index
\* length() of every string's data is the null character.
C22_NullTerminated ==
  \A s \in Strs : st_alive[s] => Terminator(s) = 0

\* C29: a try_assign that fails because the allocation fails leaves data_,
\* length, capacity, the bytes of the buffer (terminator included) as they
\* were, and the old block is still allocated.
C29_AssignFailureKeeps ==
  (st_last.op = "try_assign" /\ st_last.res = "allocation_failed") =>
    LET s == st_last.s IN
    /\ st_size[s] = st_last.old_size
    /\ st_cap[s] = st_last.old_cap
    /\ st_data[s] = st_last.old_data
    /\ SBlock(s) = st_last.old_block
    /\ StrChars(s) = st_last.old_chars
    /\ Terminator(s) = st_last.old_block[st_last.old_size + 1]
    /\ st_data[s] # EmptyChar => st_heap[st_data[s]] # <<>>

C29_Witness ==
  /\ st_last.op = "try_assign"
  /\ st_last.res = "allocation_failed"
  /\ st_last.old_chars # <<>>
  /\ st_data[st_last.s] # EmptyChar
  /\ StrChars(st_last.s) = st_last.old_chars
  /\ Terminator(st_last.s) = 0

(***************************************************************************)
(* vector: failed additions                                                *)
(***************************************************************************)
AddOps == {"try_push_back", "try_emplace_back", "try_insert"}

\* C23: a try_push_back, try_emplace_back or try_insert that fails returns
\* the error of the step that failed (allocation_failed from the
\* reservation, the factory's error, out_of_range for the position) and
\* leaves the length and the elements as they were.
C23_FailedAddKeepsLength ==
  (last.op \in AddOps /\ last.res # "ok") =>
    /\ size_[last.v] = last.old_size
    /\ Contents(last.v) = last.old_elems
    /\ last.res \in {"allocation_failed", "invalid_argument", "out_of_range"}
    /\ last.res = "invalid_argument" => last.op = "try_emplace_back"
    /\ last.res = "out_of_range" =>
         (last.op = "try_insert" /\ last.n > last.old_size)

\* a factory error in an emplace on a vector that holds elements
C23_Witness ==
  /\ last.op = "try_emplace_back"
  /\ last.res = "invalid_argument"
  /\ last.old_size > 0
  /\ size_[last.v] = last.old_size
  /\ Contents(last.v) = last.old_elems

\* C24 as stated: a try_emplace_back that fails because the factory returns
\* an error leaves length, elements, capacity and data pointer as before
\* the call, whatever the fill level.
C24_FailedEmplaceUnapplied ==
  (last.op = "try_emplace_back" /\ last.res = "invalid_argument") =>
    /\ size_[last.v] = last.old_size
    /\ Contents(last.v) = last.old_elems
    /\ cap_[last.v] = last.old_cap
    /\ data_[last.v] = last.old_data

(***************************************************************************)
(* vector: try_clone                                                       *)
(***************************************************************************)
\* the source of the pending try_clone is as it was when the call was made
CloneSourceKept ==
  /\ alive[last.v]
  /\ data_[last.v] = last.old_data
  /\ size_[last.v] = last.old_size
  /\ cap_[last.v] = last.old_cap
  /\ Contents(last.v) = last.old_elems

\* C25: a successful try_clone returns a vector of the source's length whose
\* elements equal the source's in the same order, in a block that is not the
\* source's, and leaves the source unchanged; the clone of an empty vector
\* has length 0 and capacity 0.
C25_CloneEqual ==
  (last.op = "try_clone" /\ last.res = "ok") =>
    /\ alive[last.n]
    /\ size_[last.n] = last.old_size
    /\ Contents(last.n) = last.old_elems
    /\ last.old_size > 0 => data_[last.n] # Null
    /\ data_[last.n] # Null => data_[last.n] # data_[last.v]
    /\ CloneSourceKept
    /\ last.old_size = 0 => (size_[last.n] = 0 /\ cap_[last.n] = 0)

\* a clone of two different elements
C25_Witness ==
  /\ last.op = "try_clone"
  /\ last.res = "ok"
  /\ last.old_elems = <<1, 2>>
  /\ Contents(last.n) = <<1, 2>>
  /\ data_[last.n] # data_[last.v]

\* C26: when the try_clone of element i fails, try_clone returns that error,
\* has cloned exactly the i elements before it and none after it, leaves
\* the source unchanged, and the partial clone is discarded with each of its
\* i elements destroyed once and its block released once.
C26_FailedCloneDiscarded ==
  (last.op = "try_clone" /\ last.val # NoFail) =>
    /\ last.res = last.elem_err
    /\ last.cloned = last.val
    /\ last.clone_elems = SubSeq(last.old_elems, 1, last.val)
    /\ CloneSourceKept
    /\ ~alive[last.n]
    /\ last.dtors = IF trivially_destructible THEN <<>> ELSE last.clone_elems
    /\ last.block # Null
    /\ last.released = <<last.block>>
    /\ mem[last.block] = <<>>

\* the second of two elements with destructors fails to clone
C26_Witness ==
  /\ last.op = "try_clone"
  /\ last.val = 1
  /\ last.old_size = 2
  /\ last.res = "allocation_failed"
  /\ ~trivially_destructible
  /\ Len(last.dtors) = 1
  /\ last.released = <<last.block>>

(***************************************************************************)
(* atomic_fallible_singleton                                               *)
(***************************************************************************)
\* the stored pointer, returned as a value
SgPointer == [ok |-> TRUE, ptr |-> SgStorage, err |-> "none"]

\* thread t's current call has its result
SgHasResult(t) == sg_pc[t] = "ret" \/ (sg_pc[t] = "idle" /\ sg_calls[t] > 0)

\* C27: however the threads calling instance() with one external lock
\* interleave, as long as T::try_init succeeds the constructor and try_init
\* have run at most once, exactly once as soon as a caller has its result,
\* and every caller's result is the same non-null pointer.
C27_InitializedOnce ==
  sg_failures = 0 =>
    /\ constructor_calls <= 1
    /\ init_calls <= 1
    /\ \A t \in SgThreads :
         SgHasResult(t) =>
           /\ sg_res[t] = SgPointer
           /\ sg_res[t].ptr # Null
           /\ constructor_calls = 1
           /\ init_calls = 1

\* three threads that all went through the lock have their results
C27_Witness ==
  /\ sg_failures = 0
  /\ \A t \in SgThreads :
       sg_pc[t] = "ret" /\ sg_calls[t] = 1 /\ sg_locked[t]
         /\ sg_res[t] = SgPointer
  /\ constructor_calls = 1
  /\ init_calls = 1

\* C28: a call of instance() that begins once m_state is READY never calls
\* Traits::lock and returns the stored pointer.
C28_FastPathNoLock ==
  \A t \in SgThreads :
    sg_ready_at_call[t] =>
      /\ ~sg_locked[t]
      /\ sg_pc[t] \in {"load", "ret", "idle"}
      /\ SgHasResult(t) => sg_res[t] = SgPointer

\* a thread's second call, begun after READY, has returned without the lock
C28_Witness ==
  \E t \in SgThreads :
    /\ sg_ready_at_call[t]
    /\ sg_calls[t] = 2
    /\ sg_pc[t] = "ret"
    /\ sg_res[t] = SgPointer
    /\ ~sg_locked[t]
    /\ m_state = READY

(***************************************************************************)
(* stack_allocator                                                         *)
(***************************************************************************)
\* the addresses of the bytes of block b
SaBytes(b) == b.ptr..(b.ptr + b.size - 1)

\* blocks b and c share a byte
SaOverlap(b, c) == SaBytes(b) \cap SaBytes(c) # {}

\* size bytes at the first aligned address at or after the bump pointer end
\* inside the buffer
SaFits(off, size, alignment) ==
  AlignUp(buffer_ + off, alignment) + size <= buffer_ + capacity_

\* C30: every block handed out since the last reset lies inside the buffer,
\* starts at a multiple of the alignment it was requested with and shares no
\* byte with another such block; allocate fails exactly when the request
\* does not fit in the remaining space, with allocation_failed and the
\* offset unchanged; the offset never exceeds the capacity.
C30_BlocksInsideBuffer ==
  /\ offset_ <= capacity_
  /\ \A i \in 1..Len(sa_blocks) :
       /\ buffer_ <= sa_blocks[i].ptr
       /\ sa_blocks[i].ptr + sa_blocks[i].size <= buffer_ + capacity_
       /\ sa_blocks[i].ptr % sa_blocks[i].alignment = 0
       /\ \A j \in 1..Len(sa_blocks) :
            i # j => ~SaOverlap(sa_blocks[i], sa_blocks[j])
  /\ sa_last.op = "allocate" =>
       /\ sa_last.res \in {"ok", "allocation_failed"}
       /\ sa_last.res = "ok" <=>
            SaFits(sa_last.old_offset, sa_last.bytes, sa_last.alignment)
       /\ sa_last.res = "allocation_failed" =>
            offset_ = sa_last.old_offset

\* a request that does not fit after two blocks, the second one padded, in a
\* buffer at an odd address
C30_Witness ==
  /\ sa_last.op = "allocate"
  /\ sa_last.res = "allocation_failed"
  /\ sa_last.bytes > 0
  /\ offset_ = sa_last.old_offset
  /\ buffer_ % 2 = 1
  /\ Len(sa_blocks) = 2
  /\ sa_blocks[1].size > 0
  /\ sa_blocks[2].size > 0
  /\ sa_blocks[2].ptr > sa_blocks[1].ptr + sa_blocks[1].size
  /\ sa_blocks[2].ptr % 4 = 0

\* the block of the pending expand_in_place, grown to the requested size,
\* ends inside the buffer
SaExpandFits == sa_last.ptr + sa_last.bytes <= buffer_ + capacity_

\* what a pending expand_in_place has done, given whether it succeeded
SaExpandEffect ==
  /\ sa_last.res \in {"ok", "in_place_growth_failed"}
  /\ sa_last.res = "ok" =>
       /\ sa_blocks[sa_last.idx].ptr = sa_last.ptr
       /\ sa_blocks[sa_last.idx].size = sa_last.bytes
       /\ buffer_ + offset_ >= sa_last.ptr + sa_last.bytes
  /\ sa_last.res = "in_place_growth_failed" =>
       /\ offset_ = sa_last.old_offset
       /\ sa_blocks[sa_last.idx].size = sa_last.old_size

InsertShifted ==
  /\ last.op = "try_insert"
  /\ last.res = "ok"
  /\ ~is_relocatable
  /\ last.old_size > last.n

\* the steps of the pending insert's shift that are moves
InsertMoves == SelectSeq(last.ops, LAMBDA o : o.op # "destroy")

\* the steps run from the highest cell down, each into the next cell, onto
\* the cells (pos, length]
MovesDownward ==
  /\ Len(InsertMoves) = last.old_size - last.n
  /\ \A k \in 1..Len(InsertMoves) :
       /\ InsertMoves[k].to = last.old_size + 1 - k
       /\ InsertMoves[k].from = last.old_size - k

\* C32 as stated: the shift of a non-relocatable type is one move
\* construction into the next slot followed by the destruction of the source
\* slot, for every slot from the highest index down to pos.
C32_AsStated ==
  InsertShifted =>
    /\ MovesDownward
    /\ \A k \in 1..Len(InsertMoves) : InsertMoves[k].op = "move_construct"
    /\ Len(SelectSeq(last.ops, LAMBDA o : o.op = "destroy")) =
         last.old_size - last.n

\* C32: the shift of a non-relocatable type moves every element of
\* [pos, length) one slot up, from the highest index down and never by
\* copy: the last element by move construction into the free slot, the
\* others by move assignment onto the moved-from slot above them; only slot
\* pos is destroyed, once, and only when the destructor is not trivial.
C32_InsertMovesDown ==
  InsertShifted =>
    /\ MovesDownward
    /\ \A k \in 1..Len(last.ops) :
         last.ops[k].op \in {"move_construct", "move_assign", "destroy"}
    /\ InsertMoves[1].op = "move_construct"
    /\ \A k \in 2..Len(InsertMoves) : InsertMoves[k].op = "move_assign"
    /\ SelectSeq(last.ops, LAMBDA o : o.op = "destroy") =
         IF trivially_destructible THEN <<>>
         ELSE <<ShiftOp("destroy", last.n, last.n)>>
    /\ last.ops[Len(last.ops)].op = "destroy" \/ trivially_destructible
    /\ Contents(last.v) =
         SubSeq(last.old_elems, 1, last.n) \o <<last.val>>
           \o SubSeq(last.old_elems, last.n + 1, last.old_size)

\* insertion at position 1 of three elements of a type with a destructor
C32_Witness ==
  /\ InsertShifted
  /\ ~trivially_destructible
  /\ last.old_size = 3
  /\ last.n = 1
  /\ Len(InsertMoves) = 2
  /\ Len(last.ops) = 3

(***************************************************************************)
(* vector: the advise hint of clear()                                      *)
(***************************************************************************)
\* the pending clear() has kept the block: same address, same capacity,
\* same number of cells
ClearKeptBlock ==
  /\ data_[last.v] = last.old_data
  /\ cap_[last.v] = last.old_cap
  /\ Len(Block(last.v)) = Len(last.old_block)

\* C33 as stated: clear() sends the hint only when the block's size exceeds
\* the threshold.
C33_AsStated ==
  last.op = "clear" =>
    /\ last.advised <=> last.bytes > DISCARD_THRESHOLD
    /\ ClearKeptBlock

\* C33: clear() sends the dont_need hint exactly when the block's
\* capacity * sizeof(T) bytes are at or above the 64 KiB threshold, never
\* below it, and neither releases the block nor changes capacity or data
\* pointer.
C33_AdviseAtThreshold ==
  last.op = "clear" =>
    /\ last.advised <=> last.bytes >= 64 * 1024
    /\ last.bytes = last.old_cap * 4 \/ last.bytes = last.old_cap * 32768
    /\ ClearKeptBlock

\* a clear() of a filled block of exactly 64 KiB, with the hint sent
C33_Witness ==
  /\ last.op = "clear"
  /\ last.bytes = DISCARD_THRESHOLD
  /\ last.advised
  /\ last.old_size > 0
  /\ size_[last.v] = 0
  /\ cap_[last.v] = 2

\* a step that creates control block b
Created(b) == cb_state[b] = "none" /\ cb_state'[b] = "live"

\* C34 as stated: every successful creation leaves the shared count at 1
\* and the weak count at 1, whatever the object type.
C34_AsStated ==
  [][\A b \in Blocks :
       Created(b) => /\ shared_count_'[b] = 1
                     /\ weak_count_'[b] = 1]_vars

\* C34: a successful creation leaves the shared count at 1; the weak
\* count is 1 for a plain type and 2 for a type deriving from
\* enable_shared_from_this (the block's self-reference and weak_this_).
C34_CreatedCounts ==
  [][\A b \in Blocks :
       Created(b) => /\ shared_count_'[b] = 1
                     /\ weak_count_'[b] = IF esft'[b] THEN 2 ELSE 1]_vars

C34_Witness ==
  \E t \in Threads, b \in Blocks :
    /\ op[t] = "create" /\ pc[t] = "ret" /\ result[t] = "ok"
    /\ cb_state[b] = "live" /\ esft[b]
    /\ shared_count_[b] = 1 /\ weak_count_[b] = 2

\* live T objects of wrapper w
LzLive(w) == lz_ctor_calls[w] - lz_dtor_calls[w]

\* the wrapper holds exactly the object and the block its flag says
LzBalanced ==
  /\ \A w \in Wrappers :
       LzLive(w) = IF lz_alive[w] /\ LzFlag(w) THEN 1 ELSE 0
  /\ lz_blocks = IF lz_alive["fallible_allocated"] THEN {m_ptr} \ {Null}
                                                    ELSE {}

\* try_get() on an uninitialised wrapper
LzEarlyGet ==
  (lz_last.op = "try_get" /\ ~lz_last.was)
    => lz_last.res = "not_initialized" /\ lz_last.ptr = Null

\* a failed try_init() / instance()
LzFailedInit ==
  (lz_last.op \in {"try_init", "instance"} /\ lz_last.res # "ok")
    => /\ ~lz_last.was
       /\ ~LzFlag(lz_last.w)
       /\ lz_last.res \in (LzResults \ {"ok"}) \cup {"allocation_failed"}
       /\ lz_last.ctors <= 1
       /\ lz_last.dtors = lz_last.ctors
       /\ lz_last.deallocs = lz_last.allocs
       /\ (lz_last.res = "allocation_failed" => lz_last.ctors = 0)

\* try_init() / instance() on an initialised wrapper
LzRepeatedInit ==
  (lz_last.op \in {"try_init", "instance"} /\ lz_last.was)
    => /\ lz_last.res = "ok"
       /\ lz_last.ctors = 0 /\ lz_last.dtors = 0
       /\ lz_last.allocs = 0 /\ lz_last.deallocs = 0
       /\ lz_last.ptr = lz_last.before
       /\ LzPointer(lz_last.w) = lz_last.before
       /\ LzFlag(lz_last.w)

\* C35: try_get() before a successful try_init() returns not_initialized;
\* a failed try_init() destroys the partial object exactly once, gives back
\* the block it took, returns the error and leaves the wrapper
\* uninitialised; try_init() / instance() on an initialised wrapper
\* constructs nothing and yields the same object.
C35_LazyInit ==
  /\ LzBalanced
  /\ LzEarlyGet
  /\ LzFailedInit
  /\ LzRepeatedInit

\* a wrapper whose first try_init() failed and released its block, and that
\* has been initialised since and asked to initialise again
C35_Witness ==
  /\ lz_last.op = "try_init" /\ lz_last.w = "fallible_allocated"
  /\ lz_last.was
  /\ lz_dtor_calls["fallible_allocated"] = 1
  /\ lz_ctor_calls["fallible_allocated"] = 2
  /\ lz_initialized["fallible_singleton"]
  /\ lz_dtor_calls["fallible_constructed"] > 0

\* thread t is inside the assignment of a handle to itself
SelfAssign(t) ==
  \/ op[t] \in {"copy_assign", "move_assign"} /\ sdst[t] = ssrc[t]
  \/ op[t] \in {"w_copy_assign", "w_move_assign"} /\ wdst[t] = wsrc[t]

\* weak references counted on block b: the weak handles, weak_this_ of a
\* live enable_shared_from_this object, and one for the shared handles
WeakRefs(b) ==
  Cardinality({w \in WSlots : wp_block_[w] = b})
    + (IF esft[b] /\ destroyed[b] = 0 THEN 1 ELSE 0)
    + (IF shared_count_[b] # 0 THEN 1 ELSE 0)

\* C36: with no handle operation in progress the shared count of a block
\* is the number of shared handles on it, and the weak count is the number
\* of weak handles (weak_this_ included) plus one while the shared count is
\* not zero; assignments keep this, and no step of a self-assignment
\* changes a counter or a handle.
C36_CountsMatchHandles ==
  /\ [](Quiescent =>
          \A b \in Blocks :
            cb_state[b] = "live" =>
              /\ shared_count_[b] = Cardinality(HandlesOn(b))
              /\ weak_count_[b] = WeakRefs(b)
              /\ (HandlesOn(b) # {} => destroyed[b] = 0))
  /\ [][\A t \in Threads :
          (SelfAssign(t) /\ pc'[t] # pc[t]) =>
            UNCHANGED <<shared_count_, weak_count_, sp_block_, wp_block_,
                        destroyed, freed>>]_vars

\* a handle that is the only one on its block has just been copy-assigned
\* to itself, while a weak handle sits on an enable_shared_from_this block
C36_Witness ==
  /\ \E t \in Threads, h \in SSlots :
       /\ op[t] = "copy_assign" /\ pc[t] = "fin"
       /\ sdst[t] = h /\ ssrc[t] = h
       /\ sp_block_[h] # Null
       /\ shared_count_[sp_block_[h]] = 1
  /\ \E w \in WSlots :
       /\ wp_block_[w] # Null
       /\ esft[wp_block_[w]]
       /\ weak_count_[wp_block_[w]] = 3

\* C37: shared_from_this() on a copy-constructed duplicate of a shared
\* object fails with empty_pointer and hands out no handle: the duplicate
\* is not owned by any shared handle.
C37_DuplicateNotOwned ==
  \A t \in Threads :
    (op[t] = "dup_shared_from_this" /\ pc[t] = "ret") =>
       /\ result[t] = "empty_pointer"
       /\ sp_block_[sdst[t]] = Null

\* the call on the duplicate has returned a handle on the control block of
\* the object it was copied from
C37_DuplicateSharesOriginal ==
  \E t \in Threads, h \in SSlots :
    /\ op[t] = "dup_shared_from_this" /\ pc[t] = "ret"
    /\ result[t] = "ok"
    /\ h # sdst[t]
    /\ sp_block_[h] # Null
    /\ sp_block_[sdst[t]] = sp_block_[h]
    /\ shared_count_[sp_block_[h]] = 2

\* C38: for an element type with a non-trivial destructor, after every
\* call exactly the slots [0, size_) of a vector's block hold a live
\* object; no call constructs over a live object, destroys, moves from or
\* relocates a slot that holds none, or leaves a live object at or past
\* size_; the destructor destroys each remaining element once and then
\* hands the block back with no live object in it.
C38_LiveSlots ==
  ~trivially_destructible =>
    /\ life_ok
    /\ \A v \in Vecs : live_slots[v] = 0..(size_[v] - 1)

\* an element-wise type: an erase in the middle of a vector of three
C38_Witness ==
  /\ ~trivially_destructible /\ ~is_relocatable
  /\ last.op = "try_erase" /\ last.res = "ok"
  /\ last.old_size = 3 /\ last.n = 0
  /\ live_slots[last.v] = {0, 1}

\* C39: every block a string obtained is still owned by a living string
\* that will hand it back, with capacity + 1 bytes, or has been handed
\* back; none is left behind by growth or by the destructor.
C39_BlocksHandedBack ==
  \A a \in StrAddrs :
    st_heap[a] # <<>> =>
      \E s \in Strs :
        /\ st_alive[s]
        /\ st_data[s] = a
        /\ Len(st_heap[a]) = st_cap[s] + 1

\* a block nobody owns: the one byte shrink_to_fit() left an empty string
\* with, after the string has grown again or has been destroyed
C39_LeakedBlock ==
  \E a \in StrAddrs :
    /\ Len(st_heap[a]) = 1
    /\ \A s \in Strs : st_data[s] # a

\* C40: try_reserve(n) of a vector of a relocatable type succeeds whenever
\* the allocator's allocate could satisfy the request, also on an
\* allocator whose reallocate always fails.
C40_ReserveWithoutReallocate ==
  (last.op = "try_reserve" /\ is_relocatable /\ last.could_allocate)
    => last.res = "ok"

\* an empty vector of a relocatable type on a stack allocator with room:
\* the reservation has failed
C40_EmptyVectorCannotGrow ==
  /\ last.op = "try_reserve" /\ is_relocatable
  /\ last.old_data = Null /\ last.old_cap = 0
  /\ last.n > 0
  /\ last.could_allocate
  /\ offset_ = 0
  /\ last.res = "allocation_failed"

====
